---- MODULE Spec2Model ----
(***************************************************************************)
(* Model of the RTRWH/AR calculation engine (server/utils/calculationEngine *)
(* .ts, the later of the two variants held in src/unnamed/part_004) and of  *)
(* the invocations the request layer makes of it.                           *)
(*                                                                          *)
(* Numbers.  The engine computes in IEEE doubles.  The model computes in    *)
(* exact rationals <<n, d>> (d > 0, lowest terms); Math.round, Math.ceil,   *)
(* Math.min and Math.max are computed as JavaScript defines them on the     *)
(* exact value.  Strings the resolver inspects are sequences of one-letter  *)
(* strings, so that startsWith, includes and toLowerCase are computed.      *)
(***************************************************************************)
EXTENDS Integers, Sequences, FiniteSets, TLC

VARIABLES
    cities,          \* const cities: CityData[]            (module scope)
    coefficients,    \* const coefficients: Coefficients    (module scope)
    pc,              \* pc[i]: the statement invocation i of calculate is at
    userInput,       \* userInput[i]: the argument of invocation i
    calculationType, \* calculationType[i]: 'rainwater' | 'recharge'
    locals,          \* locals[i]: the consts bound so far in invocation i
    outcome,         \* outcome[i]: what the caller of invocation i holds
    req,             \* req[i]: the req.body the route handler of i was posted
    res,             \* res[i]: the response the handler of i has sent
    handler,         \* handler[i]: the statement the handler of i is at
    submissions,     \* the rows storage.saveSubmission has inserted
    app,             \* the useState values of the App page
    inFlight,        \* the calls of handleFormSubmit awaiting /api/calculate
    download         \* what the last Download PDF asked for

vars ==
    <<cities, coefficients, pc, userInput, calculationType, locals, outcome,
      req, res, handler, submissions, app, inFlight, download>>

\* the state of the App page in the browser
pageVars == <<app, inFlight, download>>

\* the state of the route handlers and of the storage
routeVars == <<req, res, handler, submissions>>

\* no value: null, or the undefined of an absent record or number
NULL == <<>>

\* useState<CalculationType>(null): the null of a type that is otherwise a string
null == "null"

----------------------------------------------------------------------------
(* JavaScript numbers, as exact rationals *)

RECURSIVE GCD(_, _)
GCD(a, b) == IF b = 0 THEN a ELSE GCD(b, a % b)

Abs(x) == IF x < 0 THEN -x ELSE x

\* n/d in lowest terms with a positive denominator
Rat(n, d) ==
    LET g == GCD(Abs(n), Abs(d))
        s == IF d < 0 THEN -1 ELSE 1
    IN  <<s * (n \div g), s * (d \div g)>>

Num(k) == <<k, 1>>

\* a * b, cancelling across before multiplying
RMul(a, b) ==
    LET g1 == GCD(Abs(a[1]), b[2])
        g2 == GCD(Abs(b[1]), a[2])
    IN  <<(a[1] \div g1) * (b[1] \div g2), (a[2] \div g2) * (b[2] \div g1)>>

\* a / b, for b # 0
RDiv(a, b) ==
    RMul(a, IF b[1] < 0 THEN <<-b[2], -b[1]>> ELSE <<b[2], b[1]>>)

RAdd(a, b) ==
    LET g == GCD(a[2], b[2])
    IN  Rat(a[1] * (b[2] \div g) + b[1] * (a[2] \div g), (a[2] \div g) * b[2])

RSub(a, b) == RAdd(a, <<-b[1], b[2]>>)

RLt(a, b) == a[1] * b[2] < b[1] * a[2]

RLe(a, b) == a[1] * b[2] <= b[1] * a[2]

\* Math.min / Math.max of two numbers
RMin(a, b) == IF RLe(a, b) THEN a ELSE b

RMax(a, b) == IF RLe(a, b) THEN b ELSE a

\* Math.round: the nearest integer, a tie going up
MathRound(a) == (2 * a[1] + a[2]) \div (2 * a[2])

\* Math.ceil
MathCeil(a) == -((-a[1]) \div a[2])

\* Math.ceil(Math.sqrt(a)) for a >= 0: the least k with k * k >= a
RECURSIVE CeilSqrtFrom(_, _)
CeilSqrtFrom(a, k) ==
    IF RLe(a, Num(k * k)) THEN k ELSE CeilSqrtFrom(a, k + 1)

CeilSqrt(a) == CeilSqrtFrom(a, 0)

\* the sum of a sequence of integers: reduce((sum, month) => sum + month, 0)
RECURSIVE SumSeq(_)
SumSeq(s) == IF s = <<>> THEN 0 ELSE Head(s) + SumSeq(Tail(s))

----------------------------------------------------------------------------
(* JavaScript strings, as sequences of one-letter strings *)

\* String.prototype.toLowerCase, on the letters the model uses
LowerOf(c) ==
    CASE c = "D" -> "d" [] c = "K" -> "k" [] c = "L" -> "l" [] c = "E" -> "e"
      [] c = "R" -> "r" [] c = "A" -> "a" [] c = "H" -> "h" [] c = "I" -> "i"
      [] c = "N" -> "n" [] c = "O" -> "o" [] c = "C" -> "c" [] c = "X" -> "x"
      [] OTHER -> c

toLowerCase(s) == [k \in 1..Len(s) |-> LowerOf(s[k])]

\* String.prototype.substring(0, n)
substring0(s, n) == SubSeq(s, 1, IF n < Len(s) THEN n ELSE Len(s))

\* String.prototype.startsWith
startsWith(s, prefix) ==
    /\ Len(prefix) <= Len(s)
    /\ SubSeq(s, 1, Len(prefix)) = prefix

\* String.prototype.includes
includes(s, part) ==
    \E k \in 0..(Len(s) - Len(part)) : SubSeq(s, k + 1, k + Len(part)) = part

----------------------------------------------------------------------------
(* Products that outgrow a machine word *)

\* <<q, r>> with a * n = q * d + r and 0 <= r < d, for a, n >= 0 and d > 0,
\* by halving a: no intermediate exceeds 3 * d
RECURSIVE MulDiv(_, _, _)
MulDiv(a, n, d) ==
    IF a = 0 THEN <<0, 0>>
    ELSE LET h == MulDiv(a \div 2, n, d)
             t == 2 * h[2] + (a % 2) * (n % d)
         IN  <<2 * h[1] + (a % 2) * (n \div d) + (t \div d), t % d>>

\* Math.round(a * c) for an integer a >= 0 and a rational c >= 0
RoundMulInt(a, c) ==
    LET m == MulDiv(a, c[1], c[2])
    IN  m[1] + (IF m[2] >= c[2] - m[2] THEN 1 ELSE 0)

\* Math.round((q + r/d) * w) for integers q >= 0, 0 <= r < d and a rational
\* w >= 0: the integer part and the fraction are multiplied apart
RoundMixedMul(q, r, d, w) ==
    LET m    == MulDiv(q, w[1], w[2])
        fnum == m[2] * d + r * w[1]
        fden == d * w[2]
        fi   == fnum \div fden
        fr   == fnum % fden
    IN  m[1] + fi + (IF fr >= fden - fr THEN 1 ELSE 0)

----------------------------------------------------------------------------
(* Reference data: server/data/coefficients.json and server/data/cities.json *)

undefined == <<>>

\* an optional number that is present
Some(v) == <<v>>

\* an optional enum string that is absent
Absent == "undefined"

\* the month-by-month demand multipliers of the three purposes
DomesticMultipliers ==
    <<Num(1), Num(1), Rat(11, 10), Rat(6, 5), Rat(13, 10), Rat(11, 10),
      Rat(9, 10), Rat(9, 10), Num(1), Num(1), Num(1), Num(1)>>

IrrigationMultipliers ==
    <<Rat(4, 5), Rat(9, 10), Rat(6, 5), Rat(3, 2), Rat(8, 5), Num(1),
      Rat(1, 2), Rat(1, 2), Rat(7, 10), Num(1), Num(1), Rat(9, 10)>>

IndustrialMultipliers ==
    <<Num(1), Num(1), Num(1), Rat(11, 10), Rat(11, 10), Num(1),
      Num(1), Num(1), Num(1), Num(1), Num(1), Num(1)>>

\* a coefficient table of the shape coefficientsSchema requires
CoefficientsData ==
    [ runoffCoefficients |->
        [RCC |-> Rat(17, 20), GI |-> Rat(9, 10),
         Asbestos |-> Rat(4, 5), Tiles |-> Rat(3, 4)],
      infiltrationRates |-> [Sandy |-> Num(25), Loamy |-> Num(15), Clayey |-> Num(5)],
      costFactors |->
        [baseCostPerSqm |-> Num(350),
         budgetMultipliers |-> [Low |-> Rat(4, 5), Medium |-> Num(1), High |-> Rat(13, 10)]],
      waterRates |-> [municipalRate |-> Rat(1, 50), domesticConsumption |-> Num(135)],
      advancedFactors |->
        [evaporationLoss |->
           [North |-> Rat(1, 10), South |-> Rat(3, 20), East |-> Rat(1, 10),
            West |-> Rat(1, 5), Central |-> Rat(3, 20), Northeast |-> Rat(1, 20)],
         qualityFactors |->
           [environment |->
              [Residential |-> Num(1), Industrial |-> Rat(17, 20), Agricultural |-> Rat(19, 20)],
            birdNesting |-> Rat(9, 10)],
         seasonalVariation |->
           [premonsoon |-> Rat(9, 10), monsoon |-> Num(1),
            postmonsoon |-> Rat(19, 20), winter |-> Rat(17, 20)],
         seasonalDemandMultipliers |->
           [Domestic |-> DomesticMultipliers, Irrigation |-> IrrigationMultipliers,
            Industrial |-> IndustrialMultipliers],
         maintenanceCosts |-> [annual |-> Rat(3, 100)],
         lifeCycleFactors |-> [system_life |-> Num(20)]] ]

CoefficientTables == {CoefficientsData}

Str_Delhi == <<"D", "e", "l", "h", "i">>
Str_Kochi == <<"K", "o", "c", "h", "i">>
Str_Kerala == <<"K", "e", "r", "a", "l", "a">>
Str_Leh == <<"L", "e", "h">>
Str_Ladakh == <<"L", "a", "d", "a", "k", "h">>
Str_Srinagar == <<"S", "r", "i", "n", "a", "g", "a", "r">>
Str_Kashmir == <<"K", "a", "s", "h", "m", "i", "r">>

Pin_Delhi == <<"1", "1", "0", "0", "0", "1">>
Pin_Kochi == <<"6", "8", "2", "0", "0", "1">>
Pin_Leh == <<"1", "9", "4", "1", "0", "1">>
Pin_Srinagar == <<"1", "9", "0", "0", "0", "1">>
Pin_Nowhere == <<"9", "9", "9", "9", "9", "9">>

\* a city of the shape cityDataSchema requires; annualRainfall is the sum
City(name, state, pin, rain, depth, aquifer, region) ==
    [city |-> name, state |-> state, pincode |-> pin, monthlyRainfall |-> rain,
     annualRainfall |-> SumSeq(rain), groundwaterDepth |-> depth,
     aquiferType |-> aquifer, region |-> region]

Delhi ==
    City(Str_Delhi, Str_Delhi, Pin_Delhi,
         <<19, 20, 15, 21, 25, 70, 237, 235, 113, 17, 9, 9>>, 15, "Alluvial", "North")

Kochi ==
    City(Str_Kochi, Str_Kerala, Pin_Kochi,
         <<22, 30, 51, 140, 364, 756, 572, 386, 282, 333, 185, 37>>, 5, "Coastal", "South")

\* a station that records no rain at all
Leh ==
    City(Str_Leh, Str_Ladakh, Pin_Leh,
         <<0, 0, 0, 0, 0, 0, 0, 0, 0, 0, 0, 0>>, 40, "Hard Rock", "North")

\* a station with its rain in winter and spring and a dry autumn
Srinagar ==
    City(Str_Srinagar, Str_Kashmir, Pin_Srinagar,
         <<48, 68, 121, 85, 68, 39, 62, 76, 28, 33, 28, 54>>, 10, "Alluvial", "North")

\* the tables the process may have loaded: with Delhi, without it, empty
CityTables == {<<Kochi, Delhi, Leh, Srinagar>>, <<Leh, Kochi>>, <<>>}

----------------------------------------------------------------------------
(* CalculationEngine: the pure steps *)

calculateQualityFactor(input) ==
    LET advancedFactors == coefficients.advancedFactors
        qualityFactor == advancedFactors.qualityFactors.environment[input.environment]
    IN  IF input.birdNesting
        THEN RMul(qualityFactor, advancedFactors.qualityFactors.birdNesting)
        ELSE qualityFactor

\* monthIndex counts from 0
getSeason(monthIndex) ==
    IF monthIndex >= 2 /\ monthIndex <= 4 THEN "premonsoon"
    ELSE IF monthIndex >= 5 /\ monthIndex <= 8 THEN "monsoon"
    ELSE IF monthIndex >= 9 /\ monthIndex <= 10 THEN "postmonsoon"
    ELSE "winter"

calculateMonthlySeasonalDemand(purpose) ==
    coefficients.advancedFactors.seasonalDemandMultipliers[purpose]

\* the loop of calculateDryPeriodStorage: <<cumulativeDeficit, maxDeficit>> after
\* the iterations for the first i months (the test on before has TLC evaluate
\* the earlier iterations first)
RECURSIVE DryPeriodLoop(_, _, _)
DryPeriodLoop(monthlyPotential, monthlyDemand, i) ==
    IF i = 0 THEN <<Num(0), Num(0)>>
    ELSE LET before == DryPeriodLoop(monthlyPotential, monthlyDemand, i - 1)
             monthlyDeficit == RSub(monthlyDemand, Num(monthlyPotential[i]))
             cumulativeDeficit == RMax(Num(0), RAdd(before[1], monthlyDeficit))
         IN  IF Len(before) = 2
             THEN <<cumulativeDeficit, RMax(before[2], cumulativeDeficit)>>
             ELSE before

\* the shortfall of the year as a whole in place of that of its driest run
calculateDryPeriodStorage_WholeYear(monthlyPotential, householdDemand) ==
    LET shortfall == householdDemand - SumSeq(monthlyPotential)
    IN  IF shortfall > 0 THEN shortfall ELSE 0

calculateDryPeriodStorage(monthlyPotential, householdDemand) ==
    LET monthlyDemand == Rat(householdDemand, 12)
    IN  MathRound(DryPeriodLoop(monthlyPotential, monthlyDemand,
                                Len(monthlyPotential))[2])

\* the loop of calculateMonsoonSurplus: totalSurplus after the iterations for the
\* first k of monsoonMonths (the test on totalSurplus has TLC evaluate the
\* earlier iterations first)
RECURSIVE MonsoonLoop(_, _, _, _)
MonsoonLoop(monthlyPotential, monthlyDemand, monsoonMonths, k) ==
    IF k = 0 THEN Num(0)
    ELSE LET totalSurplus ==
                 MonsoonLoop(monthlyPotential, monthlyDemand, monsoonMonths, k - 1)
             surplus == RSub(Num(monthlyPotential[monsoonMonths[k] + 1]), monthlyDemand)
         IN  IF Len(totalSurplus) = 2 /\ RLt(Num(0), surplus)
             THEN RAdd(totalSurplus, surplus)
             ELSE totalSurplus

\* the surplus of May..August: the indices of monsoonMonths read from 1
calculateMonsoonSurplus_FromMay(monthlyPotential, householdDemand) ==
    LET monthlyDemand == Rat(householdDemand, 12)
        monsoonMonths == <<4, 5, 6, 7>>
    IN  MathRound(MonsoonLoop(monthlyPotential, monthlyDemand, monsoonMonths,
                              Len(monsoonMonths)))

calculateMonsoonSurplus(monthlyPotential, householdDemand) ==
    LET monthlyDemand == Rat(householdDemand, 12)
        monsoonMonths == <<5, 6, 7, 8>>
    IN  MathRound(MonsoonLoop(monthlyPotential, monthlyDemand, monsoonMonths,
                              Len(monsoonMonths)))

\* a filtration unit chosen by the requested budget tier
calculateFiltrationCost_ByBudget(input) ==
    IF input.budget = "High" THEN 18000
    ELSE IF input.budget = "Low" THEN 5000 ELSE 12000

calculateFiltrationCost(input) ==
    LET c1 == IF input.purpose = "Domestic" THEN Num(12000) ELSE Num(5000)
        c2 == IF input.environment = "Industrial" THEN RMul(c1, Rat(3, 2)) ELSE c1
        c3 == IF input.birdNesting THEN RMul(c2, Rat(6, 5)) ELSE c2
    IN  MathRound(c3)

roofEfficiency ==
    [RCC |-> Rat(19, 20), GI |-> Num(1), Asbestos |-> Rat(17, 20), Tiles |-> Rat(9, 10)]

calculateSystemEfficiency(input, tankCapacity) ==
    LET e0 == Rat(17, 20)
        e1 == IF tankCapacity < 3000 THEN RMul(e0, Rat(9, 10))
              ELSE IF tankCapacity > 10000 THEN RMul(e0, Rat(21, 20))
              ELSE e0
        e2 == RMul(e1, roofEfficiency[input.roofType])
        e3 == IF input.environment = "Industrial" THEN RMul(e2, Rat(23, 25)) ELSE e2
        e4 == IF input.birdNesting THEN RMul(e3, Rat(19, 20)) ELSE e3
    IN  RMin(e4, Rat(19, 20))

\* cities.find(city => city.pincode.startsWith(prefix)), from index k on
RECURSIVE findByPincode(_, _, _)
findByPincode(table, prefix, k) ==
    IF k > Len(table) THEN undefined
    ELSE IF startsWith(table[k].pincode, prefix) THEN table[k]
    ELSE findByPincode(table, prefix, k + 1)

\* the callback of the second find: the fuzzy match on the city and the state
fuzzyMatch(city, locationLower) ==
    \/ includes(toLowerCase(city.city), locationLower)
    \/ includes(locationLower, toLowerCase(city.city))
    \/ includes(toLowerCase(city.state), locationLower)

\* cities.find(city => <fuzzy match>), from index k on
RECURSIVE findByName(_, _, _)
findByName(table, locationLower, k) ==
    IF k > Len(table) THEN undefined
    ELSE IF fuzzyMatch(table[k], locationLower) THEN table[k]
    ELSE findByName(table, locationLower, k + 1)

\* cities.find(city => city.city === name), from index k on
RECURSIVE findByCity(_, _, _)
findByCity(table, name, k) ==
    IF k > Len(table) THEN undefined
    ELSE IF table[k].city = name THEN table[k]
    ELSE findByCity(table, name, k + 1)

\* findCityData without its defaults: an unmatched site resolves to nothing
findCityData_NoFallback(location, pincode) ==
    LET byPincode == findByPincode(cities, substring0(pincode, 3), 1)
    IN  IF byPincode = undefined
        THEN findByName(cities, toLowerCase(location), 1)
        ELSE byPincode

findCityData(location, pincode) ==
    LET byPincode == findByPincode(cities, substring0(pincode, 3), 1)
        cityData ==
            IF byPincode = undefined
            THEN findByName(cities, toLowerCase(location), 1)
            ELSE byPincode
        delhi == findByCity(cities, Str_Delhi, 1)
    IN  IF cityData # undefined THEN cityData
        ELSE IF delhi # undefined THEN delhi
        ELSE IF Len(cities) > 0 THEN cities[1]
        ELSE undefined

\* the month's potential of calculateRainwaterPotential's map callback
RainwaterMonth(input, cityData, index) ==
    LET runoffCoeff == coefficients.runoffCoefficients[input.roofType]
        qualityFactor == calculateQualityFactor(input)
        evaporationLoss == coefficients.advancedFactors.evaporationLoss[cityData.region]
        seasonalFactor == coefficients.advancedFactors.seasonalVariation[getSeason(index)]
        factor == RMul(RMul(RMul(runoffCoeff, qualityFactor), seasonalFactor),
                       RSub(Num(1), evaporationLoss))
    IN  RoundMulInt(input.roofArea * cityData.monthlyRainfall[index + 1], factor)

\* calculateRainwaterPotential with the annual figure taken from the city's
\* annual rainfall instead of the sum of the rounded months
calculateRainwaterPotential_FromAnnualRainfall(input, cityData) ==
    LET monthlyPotential ==
            [k \in 1..Len(cityData.monthlyRainfall) |-> RainwaterMonth(input, cityData, k - 1)]
        factor ==
            RMul(RMul(coefficients.runoffCoefficients[input.roofType],
                      calculateQualityFactor(input)),
                 RSub(Num(1), coefficients.advancedFactors.evaporationLoss[cityData.region]))
    IN  [annual |-> RoundMulInt(input.roofArea * cityData.annualRainfall, factor),
         monthly |-> monthlyPotential]

calculateRainwaterPotential(input, cityData) ==
    LET monthlyPotential ==
            [k \in 1..Len(cityData.monthlyRainfall) |-> RainwaterMonth(input, cityData, k - 1)]
    IN  [annual |-> SumSeq(monthlyPotential), monthly |-> monthlyPotential]

\* the surface coefficients with those of Paved and Open Ground exchanged
catchmentCoeff_PavedAndOpenGroundExchanged ==
    ("Rooftop" :> Rat(17, 20)) @@ ("Terrace" :> Rat(9, 10)) @@
    ("Paved" :> Rat(1, 5)) @@ ("Open Ground" :> Rat(4, 5))

catchmentCoeff ==
    ("Rooftop" :> Rat(17, 20)) @@ ("Terrace" :> Rat(9, 10)) @@
    ("Paved" :> Rat(4, 5)) @@ ("Open Ground" :> Rat(1, 5))

\* the month's potential of calculateRechargePotential's map callback
RechargeMonth(input, cityData, index) ==
    LET runoffCoeff == catchmentCoeff[input.catchmentType]
        evaporationLoss == coefficients.advancedFactors.evaporationLoss[cityData.region]
        seasonalFactor == coefficients.advancedFactors.seasonalVariation[getSeason(index)]
        factor == RMul(RMul(runoffCoeff, seasonalFactor),
                       RSub(Num(1), RMul(evaporationLoss, Rat(1, 2))))
    IN  RoundMulInt(input.catchmentArea * cityData.monthlyRainfall[index + 1], factor)

calculateRechargePotential(input, cityData) ==
    LET monthlyPotential ==
            [k \in 1..Len(cityData.monthlyRainfall) |-> RechargeMonth(input, cityData, k - 1)]
    IN  [annual |-> SumSeq(monthlyPotential), monthly |-> monthlyPotential]

daysInMonths == <<31, 28, 31, 30, 31, 30, 31, 31, 30, 31, 30, 31>>

\* the loop of calculateHouseholdDemand: totalAnnualDemand after the iterations
\* for the first i months (the test on totalAnnualDemand has TLC evaluate the
\* earlier iterations first)
RECURSIVE DemandLoop(_, _, _, _)
DemandLoop(input, purposeFactor, monthlyMultipliers, i) ==
    IF i = 0 THEN Num(0)
    ELSE LET totalAnnualDemand ==
                 DemandLoop(input, purposeFactor, monthlyMultipliers, i - 1)
             dailyConsumption == coefficients.waterRates.domesticConsumption
             monthlyDemand ==
                 RMul(RMul(RMul(RMul(Num(input.dwellers), dailyConsumption),
                                Num(daysInMonths[i])), purposeFactor),
                      monthlyMultipliers[i])
         IN  IF Len(totalAnnualDemand) = 2 THEN RAdd(totalAnnualDemand, monthlyDemand)
             ELSE totalAnnualDemand

calculateHouseholdDemand(input) ==
    LET purposeFactor ==
            IF input.purpose = "Industrial" THEN Rat(23, 10)
            ELSE IF input.purpose = "Irrigation" THEN Rat(9, 5)
            ELSE Num(1)
        monthlyMultipliers == calculateMonthlySeasonalDemand(input.purpose)
    IN  MathRound(DemandLoop(input, purposeFactor, monthlyMultipliers, 12))

\* Number(Math.sqrt((tankVolume * 4) / (Math.PI * tankHeight)).toFixed(1)), in
\* tenths of a metre: the largest t with (t - 1/2)^2 * PI * tankHeight at most
\* 400 * tankVolume, PI taken as 355/113
RECURSIVE TankDiameterFrom(_, _, _)
TankDiameterFrom(tankVolume, tankHeight, t) ==
    IF RLt(RMul(Num(400 * 113), tankVolume),
           RMul(Rat((2 * t + 1) * (2 * t + 1) * 355, 4), tankHeight))
    THEN t
    ELSE TankDiameterFrom(tankVolume, tankHeight, t + 1)

\* the monsoon surplus taken as it is, without the cap at 20,000 L
MonsoonBasedCapacity_Uncapped(monsoonSurplus) == monsoonSurplus

\* const monsoonBasedCapacity = Math.min(monsoonSurplus, 20000);
MonsoonBasedCapacity(monsoonSurplus) ==
    IF monsoonSurplus < 20000 THEN monsoonSurplus ELSE 20000

\* calculateStorageTank whose final sizing forgets the 3000 L minimum
calculateStorageTank_NoFloor(rainwaterPotential, monthlyPotential, householdDemand, cityData) ==
    LET dryPeriodStorage == calculateDryPeriodStorage(monthlyPotential, householdDemand)
        monsoonSurplus == calculateMonsoonSurplus(monthlyPotential, householdDemand)
        demandBasedCapacity == MathRound(RMul(Rat(householdDemand, 365), Num(45)))
        potentialBasedCapacity == MathRound(Rat(rainwaterPotential, 4))
        monsoonBasedCapacity == MonsoonBasedCapacity(monsoonSurplus)
        first ==
            RMax(RMax(RMin(Num(demandBasedCapacity), Num(potentialBasedCapacity)),
                      RMul(Num(dryPeriodStorage), Rat(4, 5))),
                 Num(3000))
        tankCapacity == RMin(first, Num(monsoonBasedCapacity))
        tankVolume == RDiv(tankCapacity, Num(1000))
        tankHeight ==
            IF RLe(tankVolume, Num(8)) THEN Num(2)
            ELSE IF RLe(tankVolume, Num(20)) THEN Rat(5, 2)
            ELSE Num(3)
    IN  [capacity |-> MathRound(tankCapacity),
         dimensions |->
            [diameter |-> Rat(TankDiameterFrom(tankVolume, tankHeight, 0), 10),
             height |-> tankHeight]]

calculateStorageTank(rainwaterPotential, monthlyPotential, householdDemand, cityData) ==
    LET dryPeriodStorage == calculateDryPeriodStorage(monthlyPotential, householdDemand)
        monsoonSurplus == calculateMonsoonSurplus(monthlyPotential, householdDemand)
        demandBasedCapacity == MathRound(RMul(Rat(householdDemand, 365), Num(45)))
        potentialBasedCapacity == MathRound(Rat(rainwaterPotential, 4))
        dryPeriodBasedCapacity == dryPeriodStorage
        monsoonBasedCapacity == MonsoonBasedCapacity(monsoonSurplus)
        first ==
            RMax(RMax(RMin(Num(demandBasedCapacity), Num(potentialBasedCapacity)),
                      RMul(Num(dryPeriodBasedCapacity), Rat(4, 5))),
                 Num(3000))
        tankCapacity == RMax(Num(3000), RMin(first, Num(monsoonBasedCapacity)))
        tankVolume == RDiv(tankCapacity, Num(1000))
        tankHeight ==
            IF RLe(tankVolume, Num(8)) THEN Num(2)
            ELSE IF RLe(tankVolume, Num(20)) THEN Rat(5, 2)
            ELSE Num(3)
    IN  [capacity |-> MathRound(tankCapacity),
         dimensions |->
            [diameter |-> Rat(TankDiameterFrom(tankVolume, tankHeight, 0), 10),
             height |-> tankHeight]]

calculateRechargePit(input, rainwaterPotential) ==
    LET infiltrationRate == coefficients.infiltrationRates[input.soilType]
        dailyInflowRate == Rat(rainwaterPotential, 120)
        operatingHours == Num(8)
        infiltrationRateMs == RDiv(infiltrationRate, Num(1000))
        minPitArea ==
            RMax(Num(9),
                 RDiv(dailyInflowRate,
                      RMul(RMul(infiltrationRateMs, operatingHours), Num(1000))))
        maxDepth == RMin(Num(4), RMax(Num(2), RMul(Num(input.groundwaterDepth), Rat(3, 10))))
        pitSide == CeilSqrt(minPitArea)
    IN  [length |-> IF pitSide > 3 THEN pitSide ELSE 3,
         width |-> IF pitSide > 3 THEN pitSide ELSE 3,
         depth |-> maxDepth]

\* !x for an optional number: undefined and 0 are falsy
Falsy(x) == x = undefined \/ x = Some(0)

\* 0 / 0
NaN == <<0, 0>>

\* Math.ceil(totalTrenchLength / (Math.sqrt(openSpaceArea) * 0.8)): the least
\* k with (0.8 * k)^2 * openSpaceArea >= totalTrenchLength^2
TrenchesReach(totalTrenchLength, openSpaceArea, k) ==
    RLe(RMul(totalTrenchLength, totalTrenchLength),
        RMul(Rat(16 * k * k, 25), Num(openSpaceArea)))

RECURSIVE TrenchCountAbove(_, _, _)
\* some k, from k up by doubling, that reaches the length
TrenchCountAbove(totalTrenchLength, openSpaceArea, k) ==
    IF TrenchesReach(totalTrenchLength, openSpaceArea, k) THEN k
    ELSE TrenchCountAbove(totalTrenchLength, openSpaceArea, 2 * k)

RECURSIVE TrenchCountBetween(_, _, _, _)
\* the least k that reaches the length, where low does not and high does
TrenchCountBetween(totalTrenchLength, openSpaceArea, low, high) ==
    IF high - low = 1 THEN high
    ELSE LET middle == (low + high) \div 2
         IN  IF TrenchesReach(totalTrenchLength, openSpaceArea, middle)
             THEN TrenchCountBetween(totalTrenchLength, openSpaceArea, low, middle)
             ELSE TrenchCountBetween(totalTrenchLength, openSpaceArea, middle, high)

\* the least k that reaches the length, from k up
TrenchCountFrom(totalTrenchLength, openSpaceArea, k) ==
    IF TrenchesReach(totalTrenchLength, openSpaceArea, k) THEN k
    ELSE TrenchCountBetween(totalTrenchLength, openSpaceArea, k,
                            TrenchCountAbove(totalTrenchLength, openSpaceArea, k + 1))

\* Number(x.toFixed(1)) of a number x >= 0: the nearest tenth
toFixed1(x) == Rat(MathRound(RMul(x, Num(10))), 10)

\* calculateTrenchDimensions reporting the computed count as it is
calculateTrenchDimensions_RawCount(input, rechargeVolume, cityData) ==
    IF ~input.hasOpenSpace \/ Falsy(input.openSpaceArea) THEN undefined
    ELSE LET infiltrationRate == coefficients.infiltrationRates[input.soilType]
             trenchWidth == Rat(1, 2)
             dailyInflowRate == Rat(rechargeVolume * 1000, 120)
             trenchArea ==
                 RDiv(dailyInflowRate,
                      RMul(RMul(RDiv(infiltrationRate, Num(1000)), Num(8)), Num(1000)))
             totalTrenchLength == RDiv(trenchArea, trenchWidth)
             trenchCount == TrenchCountFrom(totalTrenchLength, input.openSpaceArea[1], 0)
         IN  [length |-> IF trenchCount = 0 THEN NaN
                         ELSE toFixed1(RDiv(totalTrenchLength, Num(trenchCount))),
              width |-> trenchWidth,
              depth |-> RMin(Rat(3, 2), RMul(Num(input.groundwaterDepth), Rat(3, 20))),
              count |-> trenchCount]

calculateTrenchDimensions(input, rechargeVolume, cityData) ==
    IF ~input.hasOpenSpace \/ Falsy(input.openSpaceArea) THEN undefined
    ELSE LET infiltrationRate == coefficients.infiltrationRates[input.soilType]
             openSpaceArea == input.openSpaceArea[1]
             trenchWidth == Rat(1, 2)
             trenchDepth == RMin(Rat(3, 2), RMul(Num(input.groundwaterDepth), Rat(3, 20)))
             dailyInflowRate == Rat(rechargeVolume * 1000, 120)
             infiltrationRateMs == RDiv(infiltrationRate, Num(1000))
             trenchArea ==
                 RDiv(dailyInflowRate, RMul(RMul(infiltrationRateMs, Num(8)), Num(1000)))
             totalTrenchLength == RDiv(trenchArea, trenchWidth)
             trenchCount == TrenchCountFrom(totalTrenchLength, openSpaceArea, 0)
             \* 0 / 0 when no trench is needed
             actualTrenchLength ==
                 IF trenchCount = 0 THEN NaN
                 ELSE RDiv(totalTrenchLength, Num(trenchCount))
         IN  [length |-> IF actualTrenchLength = NaN THEN NaN
                         ELSE toFixed1(actualTrenchLength),
              width |-> trenchWidth,
              depth |-> trenchDepth,
              count |-> IF trenchCount > 1 THEN trenchCount ELSE 1]

\* calculateBorewellRejuvenation whose last branch leaves recommended at its
\* initial false
calculateBorewellRejuvenation_WorkingNotRecommended(input, rechargeVolume) ==
    IF ~input.hasBorewell \/ input.borewellCondition = Absent THEN undefined
    ELSE LET condition == input.borewellCondition
         IN  IF condition = "Dead"
             THEN [recommended |-> TRUE,
                   method |-> "Direct recharge through borewell with filter media and sedimentation chamber",
                   expectedImprovement |-> "60-80% recovery possible with direct recharge. Expected yield: 2000-4000 LPH"]
             ELSE IF condition = "Partially-Dead"
             THEN [recommended |-> TRUE,
                   method |-> "Recharge pit near borewell (5m distance) with gravel and sand filter layers",
                   expectedImprovement |-> "40-60% improvement in yield. Expected increase: 1500-3000 LPH"]
             ELSE [recommended |-> FALSE,
                   method |-> "Preventive recharge pit to maintain borewell health and increase groundwater table",
                   expectedImprovement |-> "20-30% yield improvement and extended borewell life"]

calculateBorewellRejuvenation(input, rechargeVolume) ==
    IF ~input.hasBorewell \/ input.borewellCondition = Absent THEN undefined
    ELSE LET condition == input.borewellCondition
         IN  IF condition = "Dead"
             THEN [recommended |-> TRUE,
                   method |-> "Direct recharge through borewell with filter media and sedimentation chamber",
                   expectedImprovement |-> "60-80% recovery possible with direct recharge. Expected yield: 2000-4000 LPH"]
             ELSE IF condition = "Partially-Dead"
             THEN [recommended |-> TRUE,
                   method |-> "Recharge pit near borewell (5m distance) with gravel and sand filter layers",
                   expectedImprovement |-> "40-60% improvement in yield. Expected increase: 1500-3000 LPH"]
             ELSE [recommended |-> TRUE,
                   method |-> "Preventive recharge pit to maintain borewell health and increase groundwater table",
                   expectedImprovement |-> "20-30% yield improvement and extended borewell life"]

\* a recharge capacity worked out for dead borewells only
calculateBorewellRechargeCapacity_DeadOnly(input, rechargeVolume) ==
    IF input.hasBorewell /\ input.borewellCondition = "Dead" THEN Some(1200) ELSE undefined

calculateBorewellRechargeCapacity(input, rechargeVolume) ==
    IF ~input.hasBorewell \/ Falsy(input.borewellDepth) THEN undefined
    ELSE LET baseCapacity == Num(2000)
             depthFactor == RMin(Rat(3, 2), Rat(input.borewellDepth[1], 30))
             conditionFactor ==
                 IF input.borewellCondition = "Dead" THEN Rat(3, 5)
                 ELSE IF input.borewellCondition = "Partially-Dead" THEN Rat(3, 4)
                 ELSE Num(1)
         IN  Some(MathRound(RMul(RMul(baseCapacity, depthFactor), conditionFactor)))

\* the three tiers of totalBaseCost
SystemCost(totalBaseCost) ==
    LET budgetMultipliers == coefficients.costFactors.budgetMultipliers
    IN  [low |-> MathRound(RMul(totalBaseCost, budgetMultipliers.Low)),
         medium |-> MathRound(RMul(totalBaseCost, budgetMultipliers.Medium)),
         high |-> MathRound(RMul(totalBaseCost, budgetMultipliers.High))]

\* Math.round(Math.min(rainwaterPotential * systemEfficiency, householdDemand)
\*            * (municipalRate + qualityPremium))
AnnualSavings(rainwaterPotential, systemEfficiency, householdDemand, rate) ==
    LET m == MulDiv(rainwaterPotential, systemEfficiency[1], systemEfficiency[2])
    IN  IF m[1] < householdDemand
        THEN RoundMixedMul(m[1], m[2], systemEfficiency[2], rate)
        ELSE RoundMulInt(householdDemand, rate)

\* The payback period as computed but returned without the cap of 25 years.
PaybackPeriod_Uncapped(medium, annualSavings, annualMaintenance) ==
    MathRound(RDiv(Num(medium), RMax(RSub(Num(annualSavings), annualMaintenance), Num(1))))

\* const paybackPeriod = Math.round(systemCost.medium /
\*                                  Math.max(annualSavings - annualMaintenance, 1));
\* ... paybackPeriod: Math.min(paybackPeriod, 25)
PaybackPeriod(medium, annualSavings, annualMaintenance) ==
    LET paybackPeriod ==
            MathRound(RDiv(Num(medium),
                           RMax(RSub(Num(annualSavings), annualMaintenance), Num(1))))
    IN  IF paybackPeriod < 25 THEN paybackPeriod ELSE 25

calculateRainwaterCosts(input, rainwaterPotential, tankCapacity) ==
    LET baseCost == RMul(Num(input.roofArea), coefficients.costFactors.baseCostPerSqm)
        tankCost == RMul(Num(tankCapacity),
                         IF tankCapacity > 10000 THEN Rat(3, 4) ELSE Rat(17, 20))
        pumpCost == IF tankCapacity > 5000 THEN Num(8000) ELSE Num(4500)
        filtrationCost == Num(calculateFiltrationCost(input))
        totalBaseCost == RAdd(RAdd(RAdd(baseCost, tankCost), pumpCost), filtrationCost)
        systemCost == SystemCost(totalBaseCost)
        householdDemand == calculateHouseholdDemand(input)
        municipalRate == coefficients.waterRates.municipalRate
        systemEfficiency == calculateSystemEfficiency(input, tankCapacity)
        qualityPremium == IF input.purpose = "Domestic" THEN Rat(3, 200) ELSE Rat(1, 200)
        annualSavings ==
            AnnualSavings(rainwaterPotential, systemEfficiency, householdDemand,
                          RAdd(municipalRate, qualityPremium))
        advancedFactors == coefficients.advancedFactors
        systemLife == advancedFactors.lifeCycleFactors.system_life
        annualMaintenance == RMul(Num(systemCost.medium), advancedFactors.maintenanceCosts.annual)
        lifeCycleCost == RAdd(Num(systemCost.medium), RMul(annualMaintenance, systemLife))
    IN  [systemCost |-> systemCost,
         annualSavings |-> annualSavings,
         paybackPeriod |-> PaybackPeriod(systemCost.medium, annualSavings, annualMaintenance),
         lifeCycleCost |-> lifeCycleCost,
         maintenanceCost |-> MathRound(annualMaintenance)]

calculateRechargeCosts(input, rechargeVolume) ==
    LET baseCost == input.catchmentArea * 250
        pitCost == 45000
        trenchCost ==
            IF input.hasOpenSpace /\ ~Falsy(input.openSpaceArea)
            THEN input.openSpaceArea[1] * 150 ELSE 0
        borewellRechargeCost == IF input.hasBorewell THEN 35000 ELSE 0
        totalBaseCost == Num(baseCost + pitCost + trenchCost + borewellRechargeCost)
        systemCost == SystemCost(totalBaseCost)
        groundwaterBenefit == rechargeVolume
        systemLife == coefficients.advancedFactors.lifeCycleFactors.system_life
        annualMaintenance == RMul(Num(systemCost.medium), Rat(3, 100))
        lifeCycleCost == RAdd(Num(systemCost.medium), RMul(annualMaintenance, systemLife))
        borewellSavings == IF input.hasBorewell THEN 12000 ELSE 5000
        paybackPeriod ==
            MathRound(RDiv(Num(systemCost.medium), RMax(Num(borewellSavings), Num(1))))
    IN  [systemCost |-> systemCost,
         paybackPeriod |-> IF paybackPeriod < 30 THEN paybackPeriod ELSE 30,
         lifeCycleCost |-> lifeCycleCost,
         maintenanceCost |-> MathRound(annualMaintenance),
         groundwaterBenefit |-> groundwaterBenefit]

\* the levels with the bar for Medium raised to 70
FeasibilityLevel_MediumFrom70(score) ==
    IF score >= 80 THEN "High" ELSE IF score >= 70 THEN "Medium" ELSE "Low"

\* score >= 80 ? 'High' : score >= 60 ? 'Medium' : 'Low'
FeasibilityLevel(score) ==
    IF score >= 80 THEN "High" ELSE IF score >= 60 THEN "Medium" ELSE "Low"

\* the score reported without its cap
ReportedScore_Unclamped(score) == score

\* Math.min(100, score)
ReportedScore(score) == IF score < 100 THEN score ELSE 100

calculateRainwaterFeasibility(input, cityData, rainwaterPotential, householdDemand) ==
    LET rain ==
            IF cityData.annualRainfall > 1000
            THEN [score |-> 25,
                  rec |-> <<"Excellent rainfall - consider larger storage capacity">>,
                  warn |-> <<>>]
            ELSE IF cityData.annualRainfall > 600
            THEN [score |-> 15, rec |-> <<>>, warn |-> <<>>]
            ELSE [score |-> 5, rec |-> <<>>,
                  warn |-> <<"Low rainfall area - consider supplementary water sources">>]
        roof ==
            IF input.roofType = "RCC" \/ input.roofType = "GI"
            THEN [score |-> 20,
                  rec |-> <<input.roofType \o " roof is excellent for rainwater harvesting">>,
                  warn |-> <<>>]
            ELSE [score |-> 10, rec |-> <<>>,
                  warn |-> <<"Regular roof cleaning and maintenance required">>]
        \* coverage = (rainwaterPotential / householdDemand) * 100, compared
        \* with 80 and 50 (householdDemand > 0)
        cover ==
            IF 100 * rainwaterPotential > 80 * householdDemand
            THEN [score |-> 10,
                  rec |-> <<"Excellent coverage - system will meet most water needs">>]
            ELSE IF 100 * rainwaterPotential > 50 * householdDemand
            THEN [score |-> 7, rec |-> <<>>]
            ELSE [score |-> 3,
                  rec |-> <<"Partial coverage - combine with water conservation">>]
        purification ==
            IF input.purpose = "Domestic"
            THEN <<"Consider UV/RO purification for drinking water">>
            ELSE <<>>
        score == 50 + rain.score + roof.score + cover.score
    IN  [feasibilityScore |-> ReportedScore(score),
         feasibilityLevel |-> FeasibilityLevel(score),
         recommendations |->
            rain.rec \o roof.rec \o cover.rec
            \o <<"Install first flush diverter for water quality">> \o purification,
         warnings |-> rain.warn \o roof.warn]

calculateRechargeFeasibility(input, cityData, rechargeVolume) ==
    LET rain ==
            IF cityData.annualRainfall > 1000
            THEN [score |-> 20, rec |-> <<"Excellent rainfall - high recharge potential">>,
                  warn |-> <<>>]
            ELSE IF cityData.annualRainfall > 600
            THEN [score |-> 12, rec |-> <<>>, warn |-> <<>>]
            ELSE [score |-> 5, rec |-> <<>>,
                  warn |-> <<"Moderate rainfall - recharge benefits will be seasonal">>]
        soil ==
            IF input.soilType = "Sandy"
            THEN [score |-> 25,
                  rec |-> <<"Sandy soil is ideal for rapid groundwater recharge">>,
                  warn |-> <<>>]
            ELSE IF input.soilType = "Loamy"
            THEN [score |-> 18, rec |-> <<"Loamy soil provides good infiltration rates">>,
                  warn |-> <<>>]
            ELSE [score |-> 10,
                  rec |-> <<"Clayey soil requires larger recharge structures for effectiveness">>,
                  warn |-> <<"Slow infiltration - ensure proper pit/trench dimensions">>]
        depth ==
            IF input.groundwaterDepth > 3 /\ input.groundwaterDepth < 30
            THEN [score |-> 15, rec |-> <<"Optimal groundwater depth for recharge systems">>,
                  warn |-> <<>>]
            ELSE IF input.groundwaterDepth <= 3
            THEN [score |-> 5, rec |-> <<>>,
                  warn |-> <<"Shallow groundwater - monitor for waterlogging">>]
            ELSE [score |-> 10, rec |-> <<>>,
                  warn |-> <<"Deep groundwater - recharge benefits may take time">>]
        borewell ==
            IF input.hasBorewell /\ input.borewellCondition = "Dead"
            THEN [score |-> 10,
                  rec |-> <<"Direct borewell recharge recommended for rejuvenation",
                            "Install filter chamber before borewell to prevent clogging">>]
            ELSE IF input.hasBorewell /\ input.borewellCondition = "Partially-Dead"
            THEN [score |-> 8,
                  rec |-> <<"Recharge pit near borewell will improve yield significantly">>]
            ELSE [score |-> 0, rec |-> <<>>]
        space ==
            IF input.hasOpenSpace /\ ~Falsy(input.openSpaceArea)
            THEN [score |-> 10,
                  rec |-> <<"Construct " \o ToString(MathCeil(Rat(input.openSpaceArea[1], 20)))
                              \o " percolation trenches for distributed recharge",
                            "Trenches should be 0.5m wide, 1-1.5m deep, filled with gravel and sand layers">>,
                  warn |-> <<>>]
            ELSE [score |-> 0, rec |-> <<>>,
                  warn |-> <<"Limited open space - recharge options restricted to pits only">>]
        score == 50 + rain.score + soil.score + depth.score + borewell.score + space.score
    IN  [feasibilityScore |-> ReportedScore(score),
         feasibilityLevel |-> FeasibilityLevel(score),
         recommendations |->
            rain.rec \o soil.rec \o depth.rec \o borewell.rec \o space.rec
            \o <<"Regular maintenance: clean recharge structures before monsoon",
                 "Monitor groundwater level changes annually to assess effectiveness">>,
         warnings |-> rain.warn \o soil.warn \o depth.warn \o space.warn]

----------------------------------------------------------------------------
(* The inputs a caller hands to calculate: validated by the route's schema *)

MaxRoofArea == 150
MaxDwellers == 4
MaxCatchmentArea == 200
MaxOpenSpaceArea == 100
MaxGroundwaterDepth == 45
MaxBorewellDepth == 60

Str_Ab == <<"A", "b">>

\* <<location, pincode>> pairs that reach each city by its postal code
Sites ==
    {<<Str_Kochi, Pin_Kochi>>, <<Str_Delhi, Pin_Delhi>>, <<Str_Leh, Pin_Leh>>,
     <<Str_Srinagar, Pin_Srinagar>>}

\* <<location, pincode>> pairs that exercise each rule of the site resolver
ResolverCases ==
    { <<Str_Delhi, Pin_Kochi>>,                                 \* the postal code wins
      <<<<"k", "O", "C", "H", "I">>, Pin_Nowhere>>,             \* name, case-insensitive
      <<<<"o", "c">>, Pin_Nowhere>>,                            \* the name contains the input
      <<<<"N", "e", "w", " ", "D", "e", "l", "h", "i">>, Pin_Nowhere>>,  \* the input contains the name
      <<<<"K", "E", "R", "A">>, Pin_Nowhere>>,                  \* the state contains the input
      <<<<"L", "a", "d", "a", "k", "h", " ", "X">>, Pin_Nowhere>>,  \* the input contains the state
      <<<<"X", "x">>, Pin_Nowhere>> }                           \* nothing matches

RainwaterBase ==
    [name |-> Str_Ab, location |-> Str_Kochi, pincode |-> Pin_Kochi,
     roofArea |-> 60, roofType |-> "RCC", environment |-> "Residential",
     birdNesting |-> FALSE, dwellers |-> MaxDwellers, purpose |-> "Domestic",
     hasOpenSpace |-> FALSE, openSpaceArea |-> undefined, groundwaterDepth |-> 10,
     soilType |-> "Sandy", budget |-> "Medium"]

RoofTypes == {"RCC", "GI", "Asbestos", "Tiles"}
Environments == {"Residential", "Industrial", "Agricultural"}
Purposes == {"Domestic", "Irrigation", "Industrial"}
SoilTypes == {"Sandy", "Loamy", "Clayey"}
Budgets == {"Low", "Medium", "High"}

RainwaterInputs ==
    \* every site, roof area, roof material, household size and purpose
    { [RainwaterBase EXCEPT !.location = site[1], !.pincode = site[2],
                            !.roofArea = area, !.roofType = roof,
                            !.dwellers = n, !.purpose = purpose] :
        site \in Sites, area \in {1, 60, MaxRoofArea}, roof \in RoofTypes,
        n \in {1, MaxDwellers}, purpose \in Purposes }
    \cup
    \* every site, roof material, environment and bird-nesting flag
    { [RainwaterBase EXCEPT !.location = site[1], !.pincode = site[2],
                            !.roofType = roof, !.environment = env,
                            !.birdNesting = bird] :
        site \in Sites, roof \in RoofTypes, env \in Environments, bird \in BOOLEAN }
    \cup
    \* every environment, bird-nesting flag and purpose on the extreme roofs
    { [RainwaterBase EXCEPT !.roofArea = area, !.environment = env,
                            !.birdNesting = bird, !.purpose = purpose] :
        area \in {1, MaxRoofArea}, env \in Environments, bird \in BOOLEAN,
        purpose \in Purposes }
    \cup
    { [RainwaterBase EXCEPT !.location = site[1], !.pincode = site[2],
                            !.birdNesting = bird] :
        site \in ResolverCases, bird \in BOOLEAN }
    \cup
    { [RainwaterBase EXCEPT !.budget = budget, !.hasOpenSpace = open[1],
                            !.openSpaceArea = open[2]] :
        budget \in Budgets,
        open \in {<<FALSE, undefined>>, <<TRUE, Some(MaxOpenSpaceArea)>>, <<TRUE, undefined>>} }
    \cup
    \* roofs whose coverage lies within half a percent above 50% and above 80%
    { [RainwaterBase EXCEPT !.roofArea = 11, !.roofType = "GI", !.dwellers = 1],
      [RainwaterBase EXCEPT !.roofArea = 79, !.roofType = "Asbestos", !.dwellers = 4] }

RechargeBase ==
    [name |-> Str_Ab, location |-> Str_Kochi, pincode |-> Pin_Kochi,
     catchmentArea |-> 100, catchmentType |-> "Rooftop",
     hasOpenSpace |-> FALSE, openSpaceArea |-> undefined, soilType |-> "Sandy",
     groundwaterDepth |-> 10, hasBorewell |-> FALSE, borewellCount |-> undefined,
     borewellDepth |-> undefined, borewellCondition |-> Absent,
     aquiferType |-> Absent, budget |-> "Medium"]

\* <<hasBorewell, borewellCount, borewellDepth, borewellCondition>>
Borewells ==
    { <<FALSE, undefined, undefined, Absent>>,
      <<TRUE, Some(1), Some(30), "Working">>,
      <<TRUE, Some(2), Some(MaxBorewellDepth), "Partially-Dead">>,
      <<TRUE, undefined, Some(15), "Dead">> }

CatchmentTypes == {"Rooftop", "Terrace", "Paved", "Open Ground"}

\* <<hasOpenSpace, openSpaceArea>>
OpenSpaces == {<<FALSE, undefined>>, <<TRUE, Some(1)>>, <<TRUE, Some(MaxOpenSpaceArea)>>}

GroundwaterDepths == {0, 3, 10, 30, MaxGroundwaterDepth}

RechargeInputs ==
    \* every site, catchment, soil and open space
    { [RechargeBase EXCEPT !.location = site[1], !.pincode = site[2],
                           !.catchmentArea = area, !.catchmentType = type,
                           !.hasOpenSpace = open[1], !.openSpaceArea = open[2],
                           !.soilType = soil] :
        site \in Sites, area \in {1, MaxCatchmentArea}, type \in CatchmentTypes,
        open \in OpenSpaces, soil \in SoilTypes }
    \cup
    \* every groundwater depth, borewell, open space and soil
    { [RechargeBase EXCEPT !.hasOpenSpace = open[1], !.openSpaceArea = open[2],
                           !.soilType = soil, !.groundwaterDepth = depth,
                           !.hasBorewell = well[1], !.borewellCount = well[2],
                           !.borewellDepth = well[3], !.borewellCondition = well[4]] :
        open \in OpenSpaces, soil \in SoilTypes, depth \in GroundwaterDepths,
        well \in Borewells }
    \cup
    \* every site, groundwater depth and borewell
    { [RechargeBase EXCEPT !.location = site[1], !.pincode = site[2],
                           !.groundwaterDepth = depth,
                           !.hasBorewell = well[1], !.borewellCount = well[2],
                           !.borewellDepth = well[3], !.borewellCondition = well[4]] :
        site \in Sites, depth \in GroundwaterDepths, well \in Borewells }
    \cup
    \* every site and groundwater depth on the slowest soil
    { [RechargeBase EXCEPT !.location = site[1], !.pincode = site[2],
                           !.soilType = "Clayey", !.groundwaterDepth = depth] :
        site \in Sites, depth \in GroundwaterDepths }
    \cup
    { [RechargeBase EXCEPT !.location = site[1], !.pincode = site[2]] :
        site \in ResolverCases }
    \cup
    { [RechargeBase EXCEPT !.budget = budget, !.aquiferType = aquifer,
                           !.hasOpenSpace = open[1], !.openSpaceArea = open[2],
                           !.borewellCondition = condition] :
        budget \in Budgets, aquifer \in {Absent, "Alluvial"},
        open \in {<<FALSE, undefined>>, <<FALSE, Some(MaxOpenSpaceArea)>>},
        condition \in {Absent, "Dead"} }

\* the <<input, calculationType>> pairs the route hands to calculate
Requests ==
    {<<input, "rainwater">> : input \in RainwaterInputs}
    \cup {<<input, "recharge">> : input \in RechargeInputs}

----------------------------------------------------------------------------
(* One invocation of calculate, statement by statement *)

NoLocals == <<>>

Goto(i, label) == pc' = [pc EXCEPT ![i] = label]

\* Bind into a frame that keeps the consts of the latest stage only
Bind_LatestOnly(i, consts) == locals' = [locals EXCEPT ![i] = consts]

\* bind further consts in invocation i's frame
Bind(i, consts) == locals' = [locals EXCEPT ![i] = consts @@ locals[i]]

\* calculate(userInput, calculationType): the call and its dispatch
Calculate(i, request) ==
    /\ pc[i] = "idle"
    /\ userInput' = [userInput EXCEPT ![i] = request[1]]
    /\ calculationType' = [calculationType EXCEPT ![i] = request[2]]
    /\ locals' = [locals EXCEPT ![i] = NoLocals]
    /\ outcome' = [outcome EXCEPT ![i] = NULL]
    /\ Goto(i, "findCityData")
    /\ UNCHANGED <<cities, coefficients>>

\* FindCity keeping the resolved city at the head of the shared table
FindCity_MoveToFront(i) ==
    /\ pc[i] = "findCityData"
    /\ LET cityData == findCityData(userInput[i].location, userInput[i].pincode)
       IN  IF cityData = undefined
           THEN /\ Goto(i, "thrown")
                /\ outcome' = [outcome EXCEPT ![i] = [error |-> "City data not found"]]
                /\ UNCHANGED <<locals, cities>>
           ELSE /\ Goto(i, "potential")
                /\ Bind(i, [cityData |-> cityData])
                /\ cities' = <<cityData>> \o SelectSeq(cities, LAMBDA c : c # cityData)
                /\ UNCHANGED outcome
    /\ UNCHANGED <<coefficients, userInput, calculationType, routeVars, pageVars>>

\* const cityData = this.findCityData(...); if (!cityData) throw new Error(...)
FindCity(i) ==
    /\ pc[i] = "findCityData"
    /\ LET cityData == findCityData(userInput[i].location, userInput[i].pincode)
       IN  IF cityData = undefined
           THEN /\ Goto(i, "thrown")
                /\ outcome' = [outcome EXCEPT ![i] = [error |-> "City data not found"]]
                /\ UNCHANGED locals
           ELSE /\ Goto(i, "potential")
                /\ Bind(i, [cityData |-> cityData])
                /\ UNCHANGED outcome
    /\ UNCHANGED <<cities, coefficients, userInput, calculationType, routeVars, pageVars>>

Frame == <<cities, coefficients, userInput, calculationType, outcome, routeVars, pageVars>>

\* calculateRainwaterHarvesting: the potential
RainwaterPotential(i) ==
    /\ pc[i] = "potential" /\ calculationType[i] = "rainwater"
    /\ LET p == calculateRainwaterPotential(userInput[i], locals[i].cityData)
       IN  Bind(i, [rainwaterPotential |-> p.annual, monthlyPotential |-> p.monthly])
    /\ Goto(i, "demand")
    /\ UNCHANGED Frame

\* the coverage without its cap
CoveragePercentage_Unclamped(rainwaterPotential, householdDemand) ==
    MathRound(Rat(100 * rainwaterPotential, householdDemand))

\* Math.min(100, Math.round((rainwaterPotential / householdDemand) * 100))
CoveragePercentage(rainwaterPotential, householdDemand) ==
    LET rounded == MathRound(Rat(100 * rainwaterPotential, householdDemand))
    IN  IF rounded < 100 THEN rounded ELSE 100

\* calculateRainwaterHarvesting: the demand, the coverage and the first flush
RainwaterDemand(i) ==
    /\ pc[i] = "demand" /\ calculationType[i] = "rainwater"
    /\ LET householdDemand == calculateHouseholdDemand(userInput[i])
       IN  Bind(i, [householdDemand |-> householdDemand,
                    coveragePercentage |->
                        CoveragePercentage(locals[i].rainwaterPotential, householdDemand),
                    firstFlush |-> 2 * userInput[i].roofArea])
    /\ Goto(i, "sizing")
    /\ UNCHANGED Frame

\* calculateRainwaterHarvesting: the storage tank
RainwaterStorage(i) ==
    /\ pc[i] = "sizing" /\ calculationType[i] = "rainwater"
    /\ LET tank == calculateStorageTank(locals[i].rainwaterPotential,
                                        locals[i].monthlyPotential,
                                        locals[i].householdDemand, locals[i].cityData)
       IN  Bind(i, [tankCapacity |-> tank.capacity, tankDimensions |-> tank.dimensions])
    /\ Goto(i, "cost")
    /\ UNCHANGED Frame

\* calculateRainwaterHarvesting: the costs
RainwaterCosts(i) ==
    /\ pc[i] = "cost" /\ calculationType[i] = "rainwater"
    /\ Bind(i, calculateRainwaterCosts(userInput[i], locals[i].rainwaterPotential,
                                       locals[i].tankCapacity))
    /\ Goto(i, "feasibility")
    /\ UNCHANGED Frame

\* calculateRainwaterHarvesting: the feasibility
RainwaterFeasibility(i) ==
    /\ pc[i] = "feasibility" /\ calculationType[i] = "rainwater"
    /\ Bind(i, calculateRainwaterFeasibility(userInput[i], locals[i].cityData,
                                             locals[i].rainwaterPotential,
                                             locals[i].householdDemand))
    /\ Goto(i, "return")
    /\ UNCHANGED Frame

\* the fields of RainwaterResults, in the order of the return statement
RainwaterFields ==
    {"rainwaterPotential", "monthlyPotential", "householdDemand", "coveragePercentage",
     "firstFlush", "tankCapacity", "tankDimensions", "systemCost", "annualSavings",
     "paybackPeriod", "lifeCycleCost", "maintenanceCost", "feasibilityScore",
     "feasibilityLevel", "recommendations", "warnings"}

\* the fields of RechargeResults
RechargeFields ==
    {"rainwaterPotential", "monthlyPotential", "rechargeVolume", "pitDimensions",
     "trenchDimensions", "borewellRechargeCapacity", "borewellRejuvenation",
     "systemCost", "groundwaterBenefit", "paybackPeriod", "lifeCycleCost",
     "maintenanceCost", "feasibilityScore", "feasibilityLevel", "recommendations",
     "warnings"}

\* calculateRainwaterHarvesting: return { ... }
RainwaterReturn(i) ==
    /\ pc[i] = "return" /\ calculationType[i] = "rainwater"
    /\ outcome' = [outcome EXCEPT ![i] = [f \in RainwaterFields |-> locals[i][f]]]
    /\ Goto(i, "returned")
    /\ UNCHANGED <<cities, coefficients, userInput, calculationType, locals, routeVars, pageVars>>

\* calculateArtificialRecharge: the potential
RechargePotential(i) ==
    /\ pc[i] = "potential" /\ calculationType[i] = "recharge"
    /\ LET p == calculateRechargePotential(userInput[i], locals[i].cityData)
       IN  Bind(i, [rainwaterPotential |-> p.annual, monthlyPotential |-> p.monthly])
    /\ Goto(i, "sizing")
    /\ UNCHANGED Frame

\* Math.round((rainwaterPotential / 1000) * rechargeFactor)
RechargeVolume(input, rainwaterPotential) ==
    LET rechargeFactor ==
            IF input.soilType = "Sandy" THEN Rat(9, 10)
            ELSE IF input.soilType = "Loamy" THEN Rat(4, 5)
            ELSE Rat(7, 10)
    IN  MathRound(RMul(Rat(rainwaterPotential, 1000), rechargeFactor))

\* calculateArtificialRecharge: the recharge volume, pit, trenches and borewell
RechargeSizing(i) ==
    /\ pc[i] = "sizing" /\ calculationType[i] = "recharge"
    /\ LET rechargeVolume == RechargeVolume(userInput[i], locals[i].rainwaterPotential)
       IN  Bind(i, [rechargeVolume |-> rechargeVolume,
                    pitDimensions |->
                        calculateRechargePit(userInput[i], locals[i].rainwaterPotential),
                    trenchDimensions |->
                        calculateTrenchDimensions(userInput[i], rechargeVolume,
                                                  locals[i].cityData),
                    borewellRejuvenation |->
                        calculateBorewellRejuvenation(userInput[i], rechargeVolume),
                    borewellRechargeCapacity |->
                        calculateBorewellRechargeCapacity(userInput[i], rechargeVolume)])
    /\ Goto(i, "cost")
    /\ UNCHANGED Frame

\* calculateArtificialRecharge: the costs
RechargeCosts(i) ==
    /\ pc[i] = "cost" /\ calculationType[i] = "recharge"
    /\ Bind(i, calculateRechargeCosts(userInput[i], locals[i].rechargeVolume))
    /\ Goto(i, "feasibility")
    /\ UNCHANGED Frame

\* calculateArtificialRecharge: the feasibility
RechargeFeasibility(i) ==
    /\ pc[i] = "feasibility" /\ calculationType[i] = "recharge"
    /\ Bind(i, calculateRechargeFeasibility(userInput[i], locals[i].cityData,
                                            locals[i].rechargeVolume))
    /\ Goto(i, "return")
    /\ UNCHANGED Frame

\* calculateArtificialRecharge: return { ... }
RechargeReturn(i) ==
    /\ pc[i] = "return" /\ calculationType[i] = "recharge"
    /\ outcome' = [outcome EXCEPT ![i] = [f \in RechargeFields |-> locals[i][f]]]
    /\ Goto(i, "returned")
    /\ UNCHANGED <<cities, coefficients, userInput, calculationType, locals, routeVars, pageVars>>

\* the caller has taken the result or the error: the frame is gone
Release(i) ==
    /\ pc[i] \in {"returned", "thrown"}
    /\ Goto(i, "idle")
    /\ userInput' = [userInput EXCEPT ![i] = NULL]
    /\ calculationType' = [calculationType EXCEPT ![i] = Absent]
    /\ locals' = [locals EXCEPT ![i] = NoLocals]
    /\ outcome' = [outcome EXCEPT ![i] = NULL]
    /\ UNCHANGED <<cities, coefficients, routeVars, pageVars>>

\* a statement of invocation i past the call
Statement(i) ==
    \/ FindCity(i)
    \/ RainwaterPotential(i)
    \/ RainwaterDemand(i)
    \/ RainwaterStorage(i)
    \/ RainwaterCosts(i)
    \/ RainwaterFeasibility(i)
    \/ RainwaterReturn(i)
    \/ RechargePotential(i)
    \/ RechargeSizing(i)
    \/ RechargeCosts(i)
    \/ RechargeFeasibility(i)
    \/ RechargeReturn(i)

\* a statement of invocation i, or its caller taking what it left
Step(i) ==
    \/ Statement(i)
    \/ Release(i)

----------------------------------------------------------------------------
(* Spec: one invocation at a time, over every request of Requests *)

InitFor(invocations) ==
    /\ cities \in CityTables
    /\ coefficients \in CoefficientTables
    /\ pc = [i \in invocations |-> "idle"]
    /\ userInput = [i \in invocations |-> NULL]
    /\ calculationType = [i \in invocations |-> Absent]
    /\ locals = [i \in invocations |-> NoLocals]
    /\ outcome = [i \in invocations |-> NULL]
    /\ req = [i \in invocations |-> NULL]
    /\ res = [i \in invocations |-> NULL]
    /\ handler = [i \in invocations |-> "idle"]
    /\ submissions = <<>>
    /\ app = [currentState |-> "landing", calculationType |-> null, formData |-> NULL,
              calculationResults |-> NULL, isLoading |-> FALSE, submissionId |-> NULL]
    /\ inFlight = <<>>
    /\ download = NULL

Init == InitFor({1})

Next ==
    \/ \E request \in Requests : Calculate(1, request) /\ UNCHANGED <<routeVars, pageVars>>
    \/ Step(1)

Spec == Init /\ [][Next]_vars

----------------------------------------------------------------------------
(* SpecPar: two invocations in flight at once, their statements interleaved *)

Invocations == {1, 2}

\* a site no city matches by postal code, name or state
Unmatched == <<<<"X", "x">>, Pin_Nowhere>>

ParRequests ==
    { <<RainwaterBase, "rainwater">>,
      <<[RainwaterBase EXCEPT !.location = Unmatched[1], !.pincode = Unmatched[2]],
        "rainwater">>,
      <<RechargeBase, "recharge">>,
      <<[RechargeBase EXCEPT !.location = Unmatched[1], !.pincode = Unmatched[2]],
        "recharge">>,
      \* inputs that differ from another one in a field the engine never reads
      <<[RainwaterBase EXCEPT !.budget = "High"], "rainwater">>,
      <<[RainwaterBase EXCEPT !.name = Str_Kochi], "rainwater">>,
      <<[RechargeBase EXCEPT !.budget = "Low"], "recharge">>,
      <<[RechargeBase EXCEPT !.aquiferType = "Alluvial"], "recharge">>,
      <<[RechargeBase EXCEPT !.hasBorewell = TRUE, !.borewellCount = Some(1),
                             !.borewellDepth = Some(30), !.borewellCondition = "Dead"],
        "recharge">>,
      <<[RechargeBase EXCEPT !.hasBorewell = TRUE, !.borewellCount = Some(2),
                             !.borewellDepth = Some(30), !.borewellCondition = "Dead"],
        "recharge">> }

InitPar == InitFor(Invocations)

NextPar ==
    \E i \in Invocations :
        \/ \E request \in ParRequests : Calculate(i, request) /\ UNCHANGED <<routeVars, pageVars>>
        \/ Step(i)

SpecPar == InitPar /\ [][NextPar]_vars

----------------------------------------------------------------------------
(* POST /api/calculate: the route handler, the schemas and the storage *)

\* z.string().regex(/^\d{6}$/)
IsPincode(x) ==
    /\ Len(x) = 6
    /\ \A k \in 1..6 : x[k] \in {"0", "1", "2", "3", "4", "5", "6", "7", "8", "9"}

\* the keys of rainwaterInputSchema
RainwaterKeys ==
    {"name", "location", "pincode", "roofArea", "roofType", "environment",
     "birdNesting", "dwellers", "purpose", "hasOpenSpace", "openSpaceArea",
     "groundwaterDepth", "soilType", "budget"}

\* the keys of rechargeInputSchema
RechargeKeys ==
    {"name", "location", "pincode", "catchmentArea", "catchmentType", "hasOpenSpace",
     "openSpaceArea", "soilType", "groundwaterDepth", "hasBorewell", "borewellCount",
     "borewellDepth", "borewellCondition", "aquiferType", "budget"}

\* a failed parse: the ZodError
ZodError == [success |-> FALSE]

\* a passed parse: the data, stripped to the keys of the schema
Parsed(data, keys) == [success |-> TRUE, data |-> [f \in keys |-> data[f]]]

\* rainwaterInputSchema.parse(data); an optional key the body omits reads undefined
rainwaterInputSchema(data) ==
    IF /\ (RainwaterKeys \ {"openSpaceArea"}) \subseteq DOMAIN data
       /\ Len(data.name) >= 2
       /\ Len(data.location) >= 2
       /\ IsPincode(data.pincode)
       /\ data.roofArea >= 1
       /\ data.roofType \in RoofTypes
       /\ data.environment \in Environments
       /\ data.birdNesting \in BOOLEAN
       /\ data.dwellers >= 1
       /\ data.purpose \in Purposes
       /\ data.hasOpenSpace \in BOOLEAN
       /\ data.groundwaterDepth >= 0
       /\ data.soilType \in SoilTypes
       /\ data.budget \in Budgets
    THEN Parsed([f \in RainwaterKeys |->
                    IF f \in DOMAIN data THEN data[f] ELSE undefined], RainwaterKeys)
    ELSE ZodError

\* rechargeInputSchema.parse(data): the object, then the three refinements
rechargeInputSchema(data) ==
    LET full ==
            [f \in RechargeKeys |->
                IF f \in DOMAIN data THEN data[f]
                ELSE IF f \in {"borewellCondition", "aquiferType"} THEN Absent
                ELSE undefined]
    IN  IF /\ (RechargeKeys \ {"openSpaceArea", "borewellCount", "borewellDepth",
                                "borewellCondition", "aquiferType"})
                  \subseteq DOMAIN data
           /\ Len(data.name) >= 2
           /\ Len(data.location) >= 2
           /\ IsPincode(data.pincode)
           /\ data.catchmentArea >= 1
           /\ data.catchmentType \in CatchmentTypes
           /\ data.hasOpenSpace \in BOOLEAN
           /\ full.openSpaceArea # undefined => full.openSpaceArea[1] >= 1
           /\ data.soilType \in SoilTypes
           /\ data.groundwaterDepth >= 0
           /\ data.hasBorewell \in BOOLEAN
           /\ full.borewellCount # undefined => full.borewellCount[1] >= 0
           /\ full.borewellDepth # undefined => full.borewellDepth[1] >= 0
           /\ full.borewellCondition \in {"Working", "Dead", "Partially-Dead", Absent}
           /\ full.aquiferType \in {"Alluvial", "Hard Rock", "Coastal", "Desert", Absent}
           /\ data.budget \in Budgets
           \* .refine: open space needs its area
           /\ ~(data.hasOpenSpace
                  /\ (Falsy(full.openSpaceArea) \/ full.openSpaceArea[1] <= 0))
           \* .refine: a borewell needs its depth
           /\ ~(data.hasBorewell
                  /\ (Falsy(full.borewellDepth) \/ full.borewellDepth[1] <= 0))
           \* .refine: a borewell needs its condition
           /\ ~(data.hasBorewell /\ full.borewellCondition = Absent)
        THEN Parsed(full, RechargeKeys)
        ELSE ZodError

\* the schema the handler picks for a calculation type
SchemaFor(type, data) ==
    IF type = "rainwater" THEN rainwaterInputSchema(data) ELSE rechargeInputSchema(data)

CalculationTypes == {"rainwater", "recharge"}

\* the submissions the storage takes before the run is cut off
MaxSubmissions == 2

\* the record without key f
Without(data, f) == [g \in DOMAIN data \ {f} |-> data[g]]

\* the userInputs of the request bodies
BodyInputs ==
    { RainwaterBase,
      [RainwaterBase EXCEPT !.location = Str_Delhi, !.pincode = Pin_Delhi,
                            !.roofType = "Tiles"],
      \* open space declared without its area
      [RainwaterBase EXCEPT !.hasOpenSpace = TRUE],
      Without(RainwaterBase, "openSpaceArea"),
      \* a key no schema knows
      [f \in DOMAIN RainwaterBase \cup {"extra"} |->
          IF f = "extra" THEN 1 ELSE RainwaterBase[f]],
      [RainwaterBase EXCEPT !.roofArea = 0],
      [RainwaterBase EXCEPT !.pincode = <<"6", "8", "2", "0", "1">>],
      [RainwaterBase EXCEPT !.roofType = "Thatch"],
      Without(RainwaterBase, "dwellers"),
      RechargeBase,
      [RechargeBase EXCEPT !.hasOpenSpace = TRUE, !.openSpaceArea = Some(MaxOpenSpaceArea),
                           !.hasBorewell = TRUE, !.borewellDepth = Some(MaxBorewellDepth),
                           !.borewellCondition = "Dead"],
      \* open space declared without its area, or with none
      [RechargeBase EXCEPT !.hasOpenSpace = TRUE],
      [RechargeBase EXCEPT !.hasOpenSpace = TRUE, !.openSpaceArea = Some(0)],
      \* a borewell without its depth, and one without its condition
      [RechargeBase EXCEPT !.hasBorewell = TRUE, !.borewellCondition = "Working"],
      [RechargeBase EXCEPT !.hasBorewell = TRUE, !.borewellDepth = Some(MaxBorewellDepth)],
      [RechargeBase EXCEPT !.catchmentArea = 0] }

\* req.body
Bodies ==
    [userInputs : BodyInputs,
     calculationType : CalculationTypes \cup {"solar", Absent}]

\* return res.status(code).json(body)
Reply(i, code, body) ==
    /\ res' = [res EXCEPT ![i] = [status |-> code, body |-> body]]
    /\ handler' = [handler EXCEPT ![i] = "done"]

EngineFrame == <<pc, userInput, calculationType, locals, outcome>>

\* the request arrives
Post(i, body) ==
    /\ handler[i] = "idle"
    /\ Len(submissions) < MaxSubmissions
    /\ req' = [req EXCEPT ![i] = body]
    /\ handler' = [handler EXCEPT ![i] = "type"]
    /\ UNCHANGED <<cities, coefficients, pageVars, EngineFrame, res, submissions>>

\* CheckType without the return after the 400
CheckType_FallsThrough(i) ==
    /\ handler[i] = "type"
    /\ IF req[i].calculationType \notin CalculationTypes
       THEN /\ res' = [res EXCEPT ![i] =
                            [status |-> 400,
                             body |-> [error |-> "Invalid calculation type"]]]
            /\ handler' = [handler EXCEPT ![i] = "parse"]
       ELSE /\ handler' = [handler EXCEPT ![i] = "parse"]
            /\ UNCHANGED res
    /\ UNCHANGED <<cities, coefficients, pageVars, EngineFrame, req, submissions>>

\* if (!['rainwater', 'recharge'].includes(calculationType)) return 400
CheckType(i) ==
    /\ handler[i] = "type"
    /\ IF req[i].calculationType \notin CalculationTypes
       THEN Reply(i, 400, [error |-> "Invalid calculation type"])
       ELSE /\ handler' = [handler EXCEPT ![i] = "parse"]
            /\ UNCHANGED res
    /\ UNCHANGED <<cities, coefficients, pageVars, EngineFrame, req, submissions>>

\* the parse under the schema of the type, and the call of the engine on what it
\* gives; a ZodError goes to the catch, which answers 400
Parse(i) ==
    /\ handler[i] = "parse"
    /\ LET parsed == SchemaFor(req[i].calculationType, req[i].userInputs)
       IN  IF parsed.success
           THEN /\ Calculate(i, <<parsed.data, req[i].calculationType>>)
                /\ handler' = [handler EXCEPT ![i] = "calculate"]
                /\ UNCHANGED <<req, res, submissions, pageVars>>
           ELSE /\ Reply(i, 400, [error |-> "Invalid input data", details |-> "errors"])
                /\ UNCHANGED <<cities, coefficients, pageVars, EngineFrame, req, submissions>>

\* the engine threw: the catch answers 500
Catch(i) ==
    /\ handler[i] = "calculate"
    /\ pc[i] = "thrown"
    /\ Reply(i, 500, [error |-> "Internal server error during calculation",
                      message |-> outcome[i].error])
    /\ UNCHANGED <<cities, coefficients, pageVars, EngineFrame, req, submissions>>

\* await storage.saveSubmission(validatedInputs, calculationType, results): the
\* row is stored under a fresh id, or the insert rejects and the catch answers 500
Save(i) ==
    /\ handler[i] = "calculate"
    /\ pc[i] = "returned"
    /\ \/ /\ submissions' =
                Append(submissions,
                       [id |-> Len(submissions) + 1, userInputs |-> userInput[i],
                        calculationType |-> calculationType[i], results |-> outcome[i]])
          /\ handler' = [handler EXCEPT ![i] = "respond"]
          /\ UNCHANGED res
       \/ /\ Reply(i, 500, [error |-> "Internal server error during calculation",
                            message |-> "insert failed"])
          /\ UNCHANGED submissions
    /\ UNCHANGED <<cities, coefficients, pageVars, EngineFrame, req>>

\* res.json({success: true, submissionId, results})
Respond(i) ==
    /\ handler[i] = "respond"
    /\ Reply(i, 200, [success |-> TRUE,
                      submissionId |-> submissions[Len(submissions)].id,
                      results |-> outcome[i]])
    /\ UNCHANGED <<cities, coefficients, pageVars, EngineFrame, req, submissions>>

\* the response is sent and the handler's frame is gone
Done(i) ==
    /\ handler[i] = "done"
    /\ req' = [req EXCEPT ![i] = NULL]
    /\ res' = [res EXCEPT ![i] = NULL]
    /\ handler' = [handler EXCEPT ![i] = "idle"]
    /\ Goto(i, "idle")
    /\ userInput' = [userInput EXCEPT ![i] = NULL]
    /\ calculationType' = [calculationType EXCEPT ![i] = Absent]
    /\ locals' = [locals EXCEPT ![i] = NoLocals]
    /\ outcome' = [outcome EXCEPT ![i] = NULL]
    /\ UNCHANGED <<cities, coefficients, submissions, pageVars>>

----------------------------------------------------------------------------
(* SpecRoute: requests to POST /api/calculate, one at a time *)

NextRoute ==
    \/ \E body \in Bodies : Post(1, body)
    \/ CheckType(1)
    \/ Parse(1)
    \/ Statement(1)
    \/ Catch(1)
    \/ Save(1)
    \/ Respond(1)
    \/ Done(1)

SpecRoute == Init /\ [][NextRoute]_vars

----------------------------------------------------------------------------
(* The App page: landing, form and results, and the requests it has in flight *)

MaxInFlight == 2

\* what the form of a calculation type hands to onSubmit
FormData(type) ==
    IF type = "rainwater" THEN {RainwaterBase, [RainwaterBase EXCEPT !.roofArea = 1]}
    ELSE {RechargeBase}

\* result.results of a successful reply: what the engine computed for the body
ServerResults(data, type) == [by |-> "engine", userInputs |-> data, calculationType |-> type]

\* const mockResults = generateMockResults(data, calculationType!)
generateMockResults(data, type) == [by |-> "mock", userInputs |-> data, calculationType |-> type]

\* {currentState === 'form' && calculationType && (<UserInputForm ... />)}
FormRendered == app.currentState = "form" /\ app.calculationType # null

\* {currentState === 'results' && calculationType && calculationResults && formData && ...}
ResultsRendered ==
    /\ app.currentState = "results"
    /\ app.calculationType # null
    /\ app.calculationResults # NULL
    /\ app.formData # NULL

PageFrame ==
    <<cities, coefficients, pc, userInput, calculationType, locals, outcome, req, res, handler>>

\* LandingPage onSelectPath
handleSelectPath(path) ==
    /\ app.currentState = "landing"
    /\ app' = [app EXCEPT !.calculationType = path, !.currentState = "form"]
    /\ UNCHANGED <<PageFrame, submissions, inFlight, download>>

\* UserInputForm onSubmit, up to the await of apiRequest: the request carries
\* the data and the calculationType of the render that made the handler
handleFormSubmit(data) ==
    /\ FormRendered
    /\ data \in FormData(app.calculationType)
    /\ Len(inFlight) < MaxInFlight
    /\ app' = [app EXCEPT !.formData = data, !.isLoading = TRUE]
    /\ inFlight' = Append(inFlight, [userInputs |-> data,
                                      calculationType |-> app.calculationType,
                                      response |-> NULL])
    /\ UNCHANGED <<PageFrame, submissions, download>>

\* the server answers request k: it has saved the submission and replies with
\* its id and results, or it replies with an error, or the call fails
Answer(k) ==
    /\ k \in DOMAIN inFlight
    /\ inFlight[k].response = NULL
    /\ \/ /\ Len(submissions) < MaxSubmissions
          /\ LET results == ServerResults(inFlight[k].userInputs, inFlight[k].calculationType)
                 id == Len(submissions) + 1
             IN  /\ submissions' =
                        Append(submissions,
                               [id |-> id, userInputs |-> inFlight[k].userInputs,
                                calculationType |-> inFlight[k].calculationType,
                                results |-> results])
                 /\ inFlight' =
                        [inFlight EXCEPT ![k].response =
                            [success |-> TRUE, submissionId |-> id, results |-> results]]
       \/ /\ inFlight' = [inFlight EXCEPT ![k].response = [success |-> FALSE]]
          /\ UNCHANGED submissions
    /\ UNCHANGED <<PageFrame, app, download>>

\* inFlight without its k-th request
Settled(k) == SubSeq(inFlight, 1, k - 1) \o SubSeq(inFlight, k + 1, Len(inFlight))

\* handleFormSubmit after the await: the results of the reply, or the mock
\* results when the reply is not a success or the call threw; finally
\* setIsLoading(false)
Resume(k) ==
    /\ k \in DOMAIN inFlight
    /\ inFlight[k].response # NULL
    /\ LET request == inFlight[k]
           result == request.response
       IN  IF result.success
           THEN app' = [app EXCEPT !.calculationResults = result.results,
                                   !.submissionId = Some(result.submissionId),
                                   !.currentState = "results",
                                   !.isLoading = FALSE]
           ELSE app' = [app EXCEPT !.calculationResults =
                                        generateMockResults(request.userInputs,
                                                            request.calculationType),
                                   !.currentState = "results",
                                   !.isLoading = FALSE]
    /\ inFlight' = Settled(k)
    /\ UNCHANGED <<PageFrame, submissions, download>>

\* UserInputForm onBack
handleBackToLanding ==
    /\ FormRendered
    /\ app' = [app EXCEPT !.currentState = "landing", !.calculationType = null,
                          !.formData = NULL, !.calculationResults = NULL]
    /\ UNCHANGED <<PageFrame, submissions, inFlight, download>>

\* ResultsDisplay onBack
handleBackToForm ==
    /\ ResultsRendered
    /\ app' = [app EXCEPT !.currentState = "form", !.calculationResults = NULL]
    /\ UNCHANGED <<PageFrame, submissions, inFlight, download>>

\* ResultsDisplay onDownloadPDF: without a submissionId the report is made
\* locally from the results on display; with one, /api/generate-pdf is asked
\* for the report of that submission, and the local report is the fallback
handleDownloadPDF ==
    /\ ResultsRendered
    /\ \/ /\ app.submissionId # NULL
          /\ download' = [from |-> "server", submissionId |-> app.submissionId[1],
                          showing |-> app.calculationResults]
       \/ download' = [from |-> "local", submissionId |-> 0,
                       showing |-> app.calculationResults]
    /\ UNCHANGED <<PageFrame, submissions, app, inFlight>>

NextApp ==
    \/ \E path \in CalculationTypes : handleSelectPath(path)
    \/ \E type \in CalculationTypes : \E data \in FormData(type) : handleFormSubmit(data)
    \/ \E k \in 1..MaxInFlight : Answer(k)
    \/ \E k \in 1..MaxInFlight : Resume(k)
    \/ handleBackToLanding
    \/ handleBackToForm
    \/ handleDownloadPDF

SpecApp == Init /\ [][NextApp]_vars

----------------------------------------------------------------------------
(* The properties *)

Returned(i) == pc[i] = "returned"

ReturnedAs(i, type) == Returned(i) /\ calculationType[i] = type

\* C1: in either mode a returned result has a monthlyPotential of exactly 12
\* non-negative integers, and its rainwaterPotential is the exact sum of those
\* 12 rounded entries.
C1_PotentialIsSumOfRoundedMonths ==
    \A i \in DOMAIN pc :
        Returned(i) =>
            LET monthly == outcome[i].monthlyPotential
            IN  /\ Len(monthly) = 12
                /\ \A m \in 1..12 : monthly[m] \in Nat
                /\ outcome[i].rainwaterPotential =
                       monthly[1] + monthly[2] + monthly[3] + monthly[4]
                       + monthly[5] + monthly[6] + monthly[7] + monthly[8]
                       + monthly[9] + monthly[10] + monthly[11] + monthly[12]

\* a harvesting result of the smallest roof over a rainy city: every month
\* is rounded on its own, and the sum is positive
C1_Witness ==
    /\ ReturnedAs(1, "rainwater")
    /\ userInput[1].roofArea = 1
    /\ outcome[1].rainwaterPotential > 0
    /\ \E m, n \in 1..12 : outcome[1].monthlyPotential[m] < outcome[1].monthlyPotential[n]

\* C2: the reported coveragePercentage of a harvesting result is an integer
\* of 0..100, equal to min(100, round(100 * rainwaterPotential / householdDemand)),
\* and it is 100 whenever the potential reaches the demand.
C2_CoverageClamped ==
    \A i \in DOMAIN pc :
        ReturnedAs(i, "rainwater") =>
            LET c == outcome[i].coveragePercentage
                P == outcome[i].rainwaterPotential
                D == outcome[i].householdDemand
            IN  /\ c \in 0..100
                /\ P >= D => c = 100
                \* round(x) >= 100 iff x >= 99.5; round(x) = c iff c - 1/2 <= x < c + 1/2
                /\ IF 200 * P >= 199 * D THEN c = 100
                   ELSE (2 * c - 1) * D <= 200 * P /\ 200 * P < (2 * c + 1) * D

\* the potential is more than twice the demand and the coverage reads 100
C2_Witness ==
    /\ ReturnedAs(1, "rainwater")
    /\ outcome[1].rainwaterPotential > 2 * outcome[1].householdDemand
    /\ outcome[1].coveragePercentage = 100

\* C3: the tankCapacity of a harvesting result is never below 3000 litres,
\* also when the potential and the monsoon surplus are zero.
C3_TankAtLeast3000 ==
    \A i \in DOMAIN pc :
        ReturnedAs(i, "rainwater") => outcome[i].tankCapacity >= 3000

\* no rain at all: zero potential, zero monsoon surplus, and the tank at its minimum
C3_Witness ==
    /\ ReturnedAs(1, "rainwater")
    /\ outcome[1].rainwaterPotential = 0
    /\ calculateMonsoonSurplus(outcome[1].monthlyPotential, outcome[1].householdDemand) = 0
    /\ outcome[1].tankCapacity = 3000

OpenSpaceDeclared(input) ==
    /\ input.hasOpenSpace
    /\ input.openSpaceArea # undefined
    /\ input.openSpaceArea[1] > 0

\* C5: the recharge pit of a recharge result is square with a side of at
\* least 3 m, and whenever an open space is declared trenchDimensions is
\* present with a count of at least 1.
C5_PitSquareTrenchCounted ==
    \A i \in DOMAIN pc :
        ReturnedAs(i, "recharge") =>
            LET pit == outcome[i].pitDimensions
                trench == outcome[i].trenchDimensions
            IN  /\ pit # undefined
                /\ pit.length = pit.width
                /\ pit.length >= 3
                /\ OpenSpaceDeclared(userInput[i]) =>
                       trench # undefined /\ trench.count >= 1

\* an open space over a city without rain: no trench length is needed, one trench is reported
C5_Witness ==
    /\ ReturnedAs(1, "recharge")
    /\ OpenSpaceDeclared(userInput[1])
    /\ outcome[1].rechargeVolume = 0
    /\ outcome[1].trenchDimensions.count = 1
    /\ outcome[1].pitDimensions.length = 3

\* two invocations hold results for the same input in the same mode
SameRequestReturned(i, j) ==
    /\ Returned(i) /\ Returned(j)
    /\ userInput[i] = userInput[j]
    /\ calculationType[i] = calculationType[j]

C6_SameInputSameResult ==
    \A i, j \in DOMAIN pc : SameRequestReturned(i, j) => outcome[i] = outcome[j]

\* a step writes neither table, leaves the input of a running invocation as it
\* was handed in, and leaves alone whatever belongs to an invocation that did
\* not take the step
C6_NoSharedWrite ==
    /\ cities' = cities
    /\ coefficients' = coefficients
    /\ \A i \in DOMAIN pc :
        /\ (pc[i] # "idle" /\ pc'[i] # "idle") =>
               userInput'[i] = userInput[i] /\ calculationType'[i] = calculationType[i]
        /\ pc'[i] = pc[i] =>
               /\ userInput'[i] = userInput[i]
               /\ locals'[i] = locals[i]
               /\ outcome'[i] = outcome[i]

\* C6: calculate is deterministic and independent across invocations: two
\* invocations with the same input and mode return the same result however
\* their statements interleave with each other and with other invocations,
\* and no statement writes the city table, the coefficient table, an input,
\* or anything another invocation holds.
C6_DeterministicAndIndependent ==
    []C6_SameInputSameResult /\ [][C6_NoSharedWrite]_vars

\* both invocations hold a result for the same unmatched site, resolved by default
C6_Witness ==
    /\ SameRequestReturned(1, 2)
    /\ userInput[1].location = Unmatched[1]
    /\ Len(cities) > 1
    /\ outcome[1] = outcome[2]

\* the site resolver as C7 words it: the state name matches in both directions
RECURSIVE findByNameOrState(_, _, _)
findByNameOrState(table, locationLower, k) ==
    IF k > Len(table) THEN undefined
    ELSE IF \/ includes(toLowerCase(table[k].city), locationLower)
            \/ includes(locationLower, toLowerCase(table[k].city))
            \/ includes(toLowerCase(table[k].state), locationLower)
            \/ includes(locationLower, toLowerCase(table[k].state))
         THEN table[k]
    ELSE findByNameOrState(table, locationLower, k + 1)

SiteResolverAsWorded(location, pincode) ==
    LET byPincode == findByPincode(cities, substring0(pincode, 3), 1)
        byName == findByNameOrState(cities, toLowerCase(location), 1)
        delhi == findByCity(cities, Str_Delhi, 1)
    IN  IF byPincode # undefined THEN byPincode
        ELSE IF byName # undefined THEN byName
        ELSE IF delhi # undefined THEN delhi
        ELSE cities[1]

\* C7: the site resolver returns (1) the first city whose postal code starts
\* with the first 3 digits of the pincode, (2) otherwise the first city whose
\* name or state name matches the location case-insensitively by substring in
\* both directions, (3) otherwise Delhi, or the first entry when Delhi is
\* absent; with a non-empty table it always returns a record.
C7_ResolverAsWorded ==
    \A i \in DOMAIN pc :
        (cities # <<>> /\ pc[i] \notin {"idle", "findCityData"}) =>
            /\ pc[i] # "thrown"
            /\ locals[i].cityData =
                   SiteResolverAsWorded(userInput[i].location, userInput[i].pincode)

\* the result fields that every result of the mode carries a value for
RequiredFields(type) ==
    IF type = "rainwater" THEN RainwaterFields
    ELSE RechargeFields
         \ {"trenchDimensions", "borewellRechargeCapacity", "borewellRejuvenation"}

\* C8: calculate raises only when the city table is empty; with a non-empty
\* table it returns a complete result record for every input, matched or not;
\* and when it raises, the caller holds the error and no field of a result.
C8_RaisesOnlyOnEmptyTable ==
    \A i \in DOMAIN pc :
        /\ pc[i] = "thrown" => cities = <<>> /\ DOMAIN outcome[i] = {"error"}
        /\ (cities = <<>> /\ pc[i] \notin {"idle", "findCityData"}) => pc[i] = "thrown"
        /\ pc[i] \notin {"returned", "thrown"} => outcome[i] = NULL
        /\ Returned(i) =>
            /\ DOMAIN outcome[i] =
                   IF calculationType[i] = "rainwater" THEN RainwaterFields
                   ELSE RechargeFields
            /\ \A f \in RequiredFields(calculationType[i]) :
                   outcome[i][f] = locals[i][f]
            /\ outcome[i].rainwaterPotential \in Nat
            /\ outcome[i].systemCost.medium \in Nat
            /\ outcome[i].feasibilityScore \in Nat
            /\ Len(outcome[i].recommendations) > 0

\* a site that matches no city, over a table that holds cities: a complete result
C8_Witness ==
    /\ Returned(1)
    /\ cities # <<>>
    /\ findByPincode(cities, substring0(userInput[1].pincode, 3), 1) = undefined
    /\ findByName(cities, toLowerCase(userInput[1].location), 1) = undefined
    /\ DOMAIN outcome[1] \in {RainwaterFields, RechargeFields}

\* the warning the bird-nesting flag is to raise
BirdNestingWarnings ==
    {"Bird nesting detected - install mesh covers and regular cleaning required"}

\* C9: of two harvesting inputs that differ only in birdNesting, the one with
\* bird nesting has the strictly lower rainwaterPotential, and a bird-nesting
\* warning is in its warnings and not in the other's.
C9_BirdNestingLowersAndWarns ==
    \A i \in DOMAIN pc :
        (ReturnedAs(i, "rainwater") /\ userInput[i].birdNesting) =>
            LET without == [userInput[i] EXCEPT !.birdNesting = FALSE]
                cityData == locals[i].cityData
                potentialWithout == calculateRainwaterPotential(without, cityData).annual
                warningsWithout ==
                    calculateRainwaterFeasibility(without, cityData, potentialWithout,
                                                  calculateHouseholdDemand(without)).warnings
                warningsWith == outcome[i].warnings
            IN  /\ outcome[i].rainwaterPotential < potentialWithout
                /\ \E k \in 1..Len(warningsWith) : warningsWith[k] \in BirdNestingWarnings
                /\ \A k \in 1..Len(warningsWithout) :
                       warningsWithout[k] \notin BirdNestingWarnings

\* the rejuvenation advice, by the condition of the borewell
RejuvenationByCondition ==
    [ Dead |->
        [recommended |-> TRUE,
         method |-> "Direct recharge through borewell with filter media and sedimentation chamber",
         expectedImprovement |-> "60-80% recovery possible with direct recharge. Expected yield: 2000-4000 LPH"],
      PartiallyDead |->
        [recommended |-> TRUE,
         method |-> "Recharge pit near borewell (5m distance) with gravel and sand filter layers",
         expectedImprovement |-> "40-60% improvement in yield. Expected increase: 1500-3000 LPH"],
      Working |->
        [recommended |-> TRUE,
         method |-> "Preventive recharge pit to maintain borewell health and increase groundwater table",
         expectedImprovement |-> "20-30% yield improvement and extended borewell life"] ]

\* C10: for a recharge input with a borewell, borewellRejuvenation is a fixed
\* lookup by the borewell's condition (Dead: direct recharge through the
\* borewell; Partially-Dead: a recharge pit near the borewell; Working: a
\* preventive recharge pit), each recommended and with its fixed
\* expected-improvement text, whatever the other fields of the input are.
C10_RejuvenationByCondition ==
    \A i \in DOMAIN pc :
        (ReturnedAs(i, "recharge") /\ userInput[i].hasBorewell
            /\ userInput[i].borewellCondition # Absent) =>
            outcome[i].borewellRejuvenation =
                IF userInput[i].borewellCondition = "Dead"
                THEN RejuvenationByCondition.Dead
                ELSE IF userInput[i].borewellCondition = "Partially-Dead"
                THEN RejuvenationByCondition.PartiallyDead
                ELSE RejuvenationByCondition.Working

\* a working borewell over a site that is not the base one: the preventive pit
C10_Witness ==
    /\ ReturnedAs(1, "recharge")
    /\ userInput[1].hasBorewell
    /\ userInput[1].borewellCondition = "Working"
    /\ userInput[1].groundwaterDepth = MaxGroundwaterDepth
    /\ outcome[1].borewellRejuvenation.recommended

\* the catchment surfaces, by rising runoff coefficient as C11 lists them
SurfacesByRunoff == <<"Open Ground", "Paved", "Rooftop", "Terrace">>

\* where a surface stands in SurfacesByRunoff
SurfaceRank(type) == CHOOSE k \in 1..4 : SurfacesByRunoff[k] = type

\* the potential of invocation i's input with its catchmentType replaced
PotentialOver(i, type) ==
    calculateRechargePotential([userInput[i] EXCEPT !.catchmentType = type],
                               locals[i].cityData)

\* C11: of recharge inputs that differ only in catchmentType, every month's
\* potential and the annual potential are ordered Open Ground <= Paved <=
\* Rooftop <= Terrace, and the Open Ground annual potential is strictly below
\* the Rooftop one whenever the Rooftop one is positive.
C11_PotentialOrderedBySurface ==
    \A i \in DOMAIN pc :
        ReturnedAs(i, "recharge") =>
            LET own == SurfaceRank(userInput[i].catchmentType)
            IN  /\ \A k \in 1..4 :
                    LET other == PotentialOver(i, SurfacesByRunoff[k])
                    IN  /\ k > own =>
                            /\ outcome[i].rainwaterPotential <= other.annual
                            /\ \A m \in 1..12 :
                                   outcome[i].monthlyPotential[m] <= other.monthly[m]
                        /\ k < own =>
                            /\ other.annual <= outcome[i].rainwaterPotential
                            /\ \A m \in 1..12 :
                                   other.monthly[m] <= outcome[i].monthlyPotential[m]
                /\ (userInput[i].catchmentType = "Rooftop"
                        /\ outcome[i].rainwaterPotential > 0) =>
                       PotentialOver(i, "Open Ground").annual < outcome[i].rainwaterPotential
                /\ (userInput[i].catchmentType = "Open Ground"
                        /\ PotentialOver(i, "Rooftop").annual > 0) =>
                       outcome[i].rainwaterPotential < PotentialOver(i, "Rooftop").annual

\* an Open Ground catchment of the smallest area over a rainy city, where the
\* Rooftop potential of the same area is positive
C11_Witness ==
    /\ ReturnedAs(1, "recharge")
    /\ userInput[1].catchmentType = "Open Ground"
    /\ userInput[1].catchmentArea = 1
    /\ PotentialOver(1, "Rooftop").annual > 0
    /\ outcome[1].rainwaterPotential < PotentialOver(1, "Rooftop").annual

\* a number of the model is finite unless it is the 0 / 0 of a division
Finite(x) == x # NaN

\* C12: in either mode no numeric field of a returned result is NaN or
\* Infinity: every denominator of the formula steps (household demand, net
\* savings, infiltration capacity, trench count) is positive or guarded.
C12_EveryFieldFinite ==
    \A i \in DOMAIN pc :
        /\ ReturnedAs(i, "rainwater") =>
            /\ outcome[i].householdDemand > 0
            /\ Finite(outcome[i].tankDimensions.diameter)
            /\ Finite(outcome[i].tankDimensions.height)
            /\ Finite(outcome[i].lifeCycleCost)
        /\ ReturnedAs(i, "recharge") =>
            /\ Finite(outcome[i].pitDimensions.depth)
            /\ Finite(outcome[i].lifeCycleCost)
            /\ outcome[i].trenchDimensions # undefined =>
                /\ Finite(outcome[i].trenchDimensions.length)
                /\ Finite(outcome[i].trenchDimensions.width)
                /\ Finite(outcome[i].trenchDimensions.depth)

\* the request passes: its type is one of the two and its input parses under the
\* schema of that type
Passes(request) ==
    /\ request.calculationType \in CalculationTypes
    /\ \/ /\ request.calculationType = "rainwater"
          /\ rainwaterInputSchema(request.userInputs).success
       \/ /\ request.calculationType = "recharge"
          /\ rechargeInputSchema(request.userInputs).success

\* what the schema of the request's type makes of its input
Validated(request) ==
    IF request.calculationType = "rainwater"
    THEN rainwaterInputSchema(request.userInputs).data
    ELSE rechargeInputSchema(request.userInputs).data

\* the engine is in a call, or has left a result or an error behind
EngineCalled(i) == pc[i] # "idle"

\* a request is being handled and it does not pass
Rejected(i) == req[i] # NULL /\ ~Passes(req[i])

C13_EngineOnlyOnValidated ==
    \A i \in DOMAIN pc :
        /\ EngineCalled(i) =>
              /\ req[i] # NULL
              /\ Passes(req[i])
              /\ calculationType[i] = req[i].calculationType
              /\ userInput[i] = Validated(req[i])
        /\ Rejected(i) =>
              /\ ~EngineCalled(i)
              /\ res[i] # NULL =>
                    /\ res[i].status = 400
                    /\ "results" \notin DOMAIN res[i].body
              /\ handler[i] = "done" => res[i] # NULL
        /\ \A k \in DOMAIN submissions :
              Passes([userInputs |-> submissions[k].userInputs,
                      calculationType |-> submissions[k].calculationType])

C13_SavedOnlyAfterEngine ==
    /\ Len(submissions') >= Len(submissions)
    /\ \A k \in DOMAIN submissions : submissions'[k] = submissions[k]
    /\ submissions' # submissions =>
          \E i \in DOMAIN pc :
              /\ Returned(i)
              /\ Passes(req[i])
              /\ submissions' =
                    Append(submissions,
                           [id |-> Len(submissions) + 1,
                            userInputs |-> Validated(req[i]),
                            calculationType |-> req[i].calculationType,
                            results |-> outcome[i]])
    /\ \A i \in DOMAIN pc :
          Rejected(i) => submissions' = submissions /\ pc'[i] = "idle"

\* C13: in POST /api/calculate the engine runs and a submission is saved only
\* after the calculation type is 'rainwater' or 'recharge' and the input has
\* passed the schema of that same type; an invalid type or a schema failure is
\* answered 400, with no engine call, no saved submission and no results in the
\* response.
C13_ValidatedBeforeEngineAndSave ==
    []C13_EngineOnlyOnValidated /\ [][C13_SavedOnlyAfterEngine]_vars

\* a harvesting input sent as a recharge request has been answered 400 after an
\* earlier harvesting request was saved
C13_Witness ==
    /\ handler[1] = "done"
    /\ Rejected(1)
    /\ res[1].status = 400
    /\ req[1].calculationType = "recharge"
    /\ req[1].userInputs = RainwaterBase
    /\ Len(submissions) = 1
    /\ submissions[1].calculationType = "rainwater"

\* C14: every input accepted by validation, under either schema, satisfies:
\* hasOpenSpace = true implies openSpaceArea is present and > 0; hasBorewell =
\* true implies borewellDepth is present and borewellCondition is present.
C14_AcceptedInputsConsistent ==
    \A i \in DOMAIN pc :
        EngineCalled(i) =>
            LET input == userInput[i]
            IN  /\ input.hasOpenSpace =>
                      /\ input.openSpaceArea # undefined
                      /\ input.openSpaceArea[1] > 0
                /\ "hasBorewell" \in DOMAIN input =>
                      (input.hasBorewell =>
                          /\ input.borewellDepth # undefined
                          /\ input.borewellCondition # Absent)

\* the stage that follows the stage at label in a mode's pipeline
NextStage(type, label) ==
    CASE label = "findCityData" -> "potential"
      [] label = "potential" -> IF type = "rainwater" THEN "demand" ELSE "sizing"
      [] label = "demand" -> "sizing"
      [] label = "sizing" -> "cost"
      [] label = "cost" -> "feasibility"
      [] label = "feasibility" -> "return"
      [] label = "return" -> "returned"

\* the consts the stage at label produces
StageOutputs(type, label) ==
    CASE label = "findCityData" -> {"cityData"}
      [] label = "potential" -> {"rainwaterPotential", "monthlyPotential"}
      [] label = "demand" -> {"householdDemand", "coveragePercentage", "firstFlush"}
      [] label = "sizing" ->
            IF type = "rainwater" THEN {"tankCapacity", "tankDimensions"}
            ELSE {"rechargeVolume", "pitDimensions", "trenchDimensions",
                  "borewellRejuvenation", "borewellRechargeCapacity"}
      [] label = "cost" ->
            {"systemCost", "paybackPeriod", "lifeCycleCost", "maintenanceCost"}
                \cup (IF type = "rainwater" THEN {"annualSavings"}
                      ELSE {"groundwaterBenefit"})
      [] label = "feasibility" ->
            {"feasibilityScore", "feasibilityLevel", "recommendations", "warnings"}
      [] label \in {"return", "returned"} -> {}

\* the consts the stage at label consumes
StageInputs(type, label) ==
    CASE label = "findCityData" -> {}
      [] label = "potential" -> {"cityData"}
      [] label = "demand" -> {"rainwaterPotential"}
      [] label = "sizing" ->
            IF type = "rainwater"
            THEN {"rainwaterPotential", "monthlyPotential", "householdDemand", "cityData"}
            ELSE {"rainwaterPotential", "cityData"}
      [] label = "cost" ->
            IF type = "rainwater" THEN {"rainwaterPotential", "tankCapacity"}
            ELSE {"rechargeVolume"}
      [] label = "feasibility" ->
            IF type = "rainwater" THEN {"cityData", "rainwaterPotential", "householdDemand"}
            ELSE {"cityData", "rechargeVolume"}
      [] label = "return" ->
            IF type = "rainwater" THEN RainwaterFields ELSE RechargeFields
      [] label = "returned" -> {}

RECURSIVE CompletedOutputs(_, _, _)
\* the consts of the stages from label from up to, not including, label upto
CompletedOutputs(type, from, upto) ==
    IF from = upto THEN {}
    ELSE StageOutputs(type, from) \cup CompletedOutputs(type, NextStage(type, from), upto)

Running(i) == pc[i] \notin {"idle", "thrown"}

C15_InputsReady ==
    \A i \in DOMAIN pc :
        Running(i) =>
            /\ pc[i] = "demand" => calculationType[i] = "rainwater"
            /\ DOMAIN locals[i] =
                  CompletedOutputs(calculationType[i], "findCityData", pc[i])
            /\ StageInputs(calculationType[i], pc[i]) \subseteq DOMAIN locals[i]

C15_NextStageKeepsOutputs ==
    \A i \in DOMAIN pc :
        (Running(i) /\ pc'[i] # pc[i] /\ pc'[i] # "idle") =>
            /\ \/ pc'[i] = NextStage(calculationType[i], pc[i])
               \/ pc[i] = "findCityData" /\ pc'[i] = "thrown"
            /\ \A f \in DOMAIN locals[i] :
                  f \in DOMAIN locals'[i] /\ locals'[i][f] = locals[i][f]

\* C15: within one invocation the stages run strictly in the order city
\* resolution, potential, demand (harvesting only), sizing, cost, feasibility,
\* result assembly; no stage starts before the stages whose outputs it consumes
\* have completed, and no stage changes an output of an earlier stage.
C15_StagesInOrder ==
    []C15_InputsReady /\ [][C15_NextStageKeepsOutputs]_vars

\* a harvesting invocation has come to the assembly of its result with the
\* outputs of all six stages in hand
C15_Witness ==
    /\ pc[1] = "return"
    /\ calculationType[1] = "rainwater"
    /\ DOMAIN locals[1] = RainwaterFields \cup {"cityData"}

RECURSIVE SumRange(_, _, _)
\* s[i] + ... + s[j]
SumRange(s, i, j) == IF i > j THEN 0 ELSE s[i] + SumRange(s, i + 1, j)

\* twelve times the total shortfall of months i..j: the sum of
\* (annualDemand / 12 - monthlyPotential[m]) over the range, in twelfths
Shortfall12(monthlyPotential, annualDemand, i, j) ==
    (j - i + 1) * annualDemand - 12 * SumRange(monthlyPotential, i, j)

\* the ranges of consecutive months within January..December
MonthRanges == {range \in (1..12) \X (1..12) : range[1] <= range[2]}

\* a harvesting invocation whose tank has been sized
TankSized(i) ==
    /\ Running(i)
    /\ calculationType[i] = "rainwater"
    /\ "tankCapacity" \in DOMAIN locals[i]

\* C16: calculateDryPeriodStorage returns, rounded, the largest total shortfall
\* over any run of consecutive months within January..December, or 0 when no
\* run has a positive sum: the running deficit is floored at 0 after each month
\* and the run does not wrap from December to January.
C16_DryPeriodIsLargestRun ==
    \A i \in DOMAIN pc :
        TankSized(i) =>
            LET monthly == locals[i].monthlyPotential
                demand == locals[i].householdDemand
                storage == calculateDryPeriodStorage(monthly, demand)
            IN  \* storage = Math.round(largest / 12), halves rounding up: no run
                \* has a shortfall of storage + 1/2 or more, and one run, or the
                \* empty one, has a shortfall of at least storage - 1/2
                /\ storage >= 0
                /\ \A range \in MonthRanges :
                      Shortfall12(monthly, demand, range[1], range[2]) < 12 * storage + 6
                /\ \/ 12 * storage - 6 <= 0
                   \/ \E range \in MonthRanges :
                         12 * storage - 6
                            <= Shortfall12(monthly, demand, range[1], range[2])

\* a run that starts after January has a positive shortfall, larger than that
\* of every run that starts in January: a surplus month has reset the running
\* deficit
C16_Witness ==
    /\ TankSized(1)
    /\ LET monthly == locals[1].monthlyPotential
           demand == locals[1].householdDemand
       IN  \E range \in MonthRanges :
              /\ range[1] > 1
              /\ Shortfall12(monthly, demand, range[1], range[2]) > 0
              /\ \A j \in 1..12 :
                    Shortfall12(monthly, demand, 1, j)
                        < Shortfall12(monthly, demand, range[1], range[2])

\* twelve times the surplus of June..September over the monthly demand
MonsoonSurplus12(monthlyPotential, annualDemand) ==
    LET Surplus12(m) ==
            IF 12 * monthlyPotential[m] > annualDemand
            THEN 12 * monthlyPotential[m] - annualDemand ELSE 0
    IN  Surplus12(6) + Surplus12(7) + Surplus12(8) + Surplus12(9)

\* clamp(max(min(demandBased, potentialBased), 0.8 * dryPeriodDeficit), lower
\* 3000, upper min(monsoonSurplus, 20000)), the lower bound winning
ClampedCapacity(rainwaterPotential, monthlyPotential, householdDemand) ==
    LET demandBased == MathRound(Rat(45 * householdDemand, 365))
        potentialBased == MathRound(Rat(rainwaterPotential, 4))
        dryPeriodDeficit == calculateDryPeriodStorage(monthlyPotential, householdDemand)
        monsoonSurplus ==
            MathRound(Rat(MonsoonSurplus12(monthlyPotential, householdDemand), 12))
        upper == IF monsoonSurplus < 20000 THEN monsoonSurplus ELSE 20000
        wanted == RMax(RMin(Num(demandBased), Num(potentialBased)),
                       Rat(4 * dryPeriodDeficit, 5))
    IN  RMax(Num(3000), RMin(wanted, Num(upper)))

\* C17 as stated: the tank capacity equals the clamped value itself.
C17_CapacityIsClamp ==
    \A i \in DOMAIN pc :
        TankSized(i) =>
            Num(locals[i].tankCapacity) =
                ClampedCapacity(locals[i].rainwaterPotential, locals[i].monthlyPotential,
                                locals[i].householdDemand)

\* C17: the tank capacity equals round(clamp(max(min(demandBased,
\* potentialBased), 0.8 * dryPeriodDeficit), lower 3000, upper
\* min(monsoonSurplus, 20000))), the lower bound winning: it is exactly 3000
\* whenever the monsoon surplus is at most 3000, whatever the dry-period deficit.
C17_CapacityIsRoundedClamp ==
    \A i \in DOMAIN pc :
        TankSized(i) =>
            /\ locals[i].tankCapacity =
                  MathRound(ClampedCapacity(locals[i].rainwaterPotential,
                                            locals[i].monthlyPotential,
                                            locals[i].householdDemand))
            /\ MonsoonSurplus12(locals[i].monthlyPotential, locals[i].householdDemand)
                  <= 12 * 3000 => locals[i].tankCapacity = 3000

\* 0.8 * dryPeriodDeficit, not a whole number of litres, is the capacity chosen,
\* between 3000 and the monsoon surplus
C17_Witness ==
    /\ TankSized(1)
    /\ LET clamped == ClampedCapacity(locals[1].rainwaterPotential,
                                      locals[1].monthlyPotential,
                                      locals[1].householdDemand)
       IN  /\ clamped =
                 Rat(4 * calculateDryPeriodStorage(locals[1].monthlyPotential,
                                                   locals[1].householdDemand), 5)
           /\ clamped[2] # 1
           /\ RLt(Num(3000), clamped)

\* the total trench length the infiltration of the season's inflow requires:
\* (rechargeVolume * 1000 / 120) / (infiltrationRate / 1000 * 8 * 1000) / 0.5
TotalRequiredLength(input, rechargeVolume) ==
    RDiv(Rat(25 * rechargeVolume, 12), coefficients.infiltrationRates[input.soilType])

\* x <= 0.8 * sqrt(openSpaceArea), for x >= 0
WithinMaxTrenchLength(x, openSpaceArea) ==
    RLe(RMul(x, x), Rat(16 * openSpaceArea, 25))

\* C18: when open space is declared, trenches are 0.5 m wide and
\* min(1.5, 0.15 * groundwaterDepth) m deep, the count equals
\* ceil(totalRequiredLength / (0.8 * sqrt(openSpaceArea))) (at least 1), and the
\* reported length of each trench never exceeds 0.8 * sqrt(openSpaceArea) while
\* count * length covers the total required length.
C18_TrenchesFitAndCover ==
    \A i \in DOMAIN pc :
        (ReturnedAs(i, "recharge") /\ OpenSpaceDeclared(userInput[i])) =>
            LET trench == outcome[i].trenchDimensions
                area == userInput[i].openSpaceArea[1]
                total == TotalRequiredLength(userInput[i], outcome[i].rechargeVolume)
                PerTrench(k) == RDiv(total, Num(k))
            IN  /\ trench.width = Rat(1, 2)
                /\ trench.depth =
                      RMin(Rat(3, 2), Rat(3 * userInput[i].groundwaterDepth, 20))
                /\ trench.count >= 1
                /\ WithinMaxTrenchLength(PerTrench(trench.count), area)
                /\ trench.count > 1 =>
                      ~WithinMaxTrenchLength(PerTrench(trench.count - 1), area)
                /\ Finite(trench.length)
                /\ WithinMaxTrenchLength(trench.length, area)
                /\ RLe(total, RMul(Num(trench.count), trench.length))

\* C19: the harvesting paybackPeriod is min(25, round(medium cost /
\* max(annualSavings - annualMaintenance, 1))), the annual maintenance being
\* 3% of the medium cost: it is an integer from 0 to 25; below 25 it is the
\* quotient rounded half up; it is 25 exactly when the quotient is 24.5 or
\* more; and it is 25 whenever the savings exceed the maintenance by 1 or less.
C19_PaybackIsCappedRatio ==
    \A i \in DOMAIN pc :
        ReturnedAs(i, "rainwater") =>
            LET medium == outcome[i].systemCost.medium
                gain100 == 100 * outcome[i].annualSavings - 3 * medium
                net100 == IF gain100 > 100 THEN gain100 ELSE 100
                p == outcome[i].paybackPeriod
            IN  /\ p \in 0..25
                /\ p < 25 => /\ (2 * p - 1) * net100 <= 200 * medium
                             /\ 200 * medium < (2 * p + 1) * net100
                /\ p = 25 <=> 49 * net100 <= 200 * medium
                /\ gain100 <= 100 => p = 25

\* C19's capped case: a returned harvesting result with a positive medium cost
\* whose savings do not exceed its maintenance, reported to pay back in 25 years.
C19_Witness ==
    /\ ReturnedAs(1, "rainwater")
    /\ outcome[1].systemCost.medium > 0
    /\ 100 * outcome[1].annualSavings <= 3 * outcome[1].systemCost.medium
    /\ outcome[1].paybackPeriod = 25

\* the roof-material contribution as C20 words it
RoofTierAsWorded(roofType) ==
    IF roofType \in {"RCC", "GI"} THEN 20 ELSE IF roofType = "Tiles" THEN 15 ELSE 10

\* C20: the harvesting feasibility score, before the clamp to 100, is 50 plus
\* one rainfall contribution (annual rainfall > 1000 mm: 25, > 600 mm: 15,
\* else 5), one roof-material contribution (RCC or GI: 20, Tiles: 15, other:
\* 10) and one coverage contribution (potential over demand > 80%: 10,
\* > 50%: 7, else 3), and nothing else; the reported score is that sum
\* clamped to 100.
C20_ScoreIsSumOfThreeTiers ==
    \A i \in DOMAIN pc :
        ReturnedAs(i, "rainwater") =>
            LET annualRainfall == locals[i].cityData.annualRainfall
                rainfall == IF annualRainfall > 1000 THEN 25
                            ELSE IF annualRainfall > 600 THEN 15 ELSE 5
                P == outcome[i].rainwaterPotential
                D == outcome[i].householdDemand
                coverage == IF 100 * P > 80 * D THEN 10
                            ELSE IF 100 * P > 50 * D THEN 7 ELSE 3
                score == 50 + rainfall + RoofTierAsWorded(userInput[i].roofType) + coverage
            IN  outcome[i].feasibilityScore = IF score < 100 THEN score ELSE 100

\* the strings a result lists under recommendations or warnings
Listed(strings) == {strings[k] : k \in DOMAIN strings}

\* the recharge score C21 words, before the clamp to 100
RechargeScoreAsWorded(input, annualRainfall) ==
    LET rainfall == IF annualRainfall > 1000 THEN 20
                    ELSE IF annualRainfall > 600 THEN 12 ELSE 5
        soil == IF input.soilType = "Sandy" THEN 25
                ELSE IF input.soilType = "Loamy" THEN 18 ELSE 10
        depth == IF input.groundwaterDepth <= 3 THEN 5
                 ELSE IF input.groundwaterDepth <= 30 THEN 15 ELSE 10
        borewell == IF input.hasBorewell /\ input.borewellCondition = "Dead" THEN 10
                    ELSE IF input.hasBorewell /\ input.borewellCondition = "Partially-Dead"
                    THEN 8 ELSE 0
        space == IF OpenSpaceDeclared(input) THEN 10 ELSE 0
    IN  50 + rainfall + soil + depth + borewell + space

\* C21: the recharge feasibility score, before the clamp to 100, is 50 plus
\* a rainfall contribution (20 / 12 / 5 for > 1000 / > 600 / else), a soil
\* contribution (Sandy 25, Loamy 18, Clayey 10), a groundwater-depth
\* contribution (above 3 m up to and including 30 m: 15; at most 3 m: 5 with a
\* waterlogging warning; above 30 m: 10 with a slow-benefit warning), 10 for
\* a Dead or 8 for a Partially-Dead borewell, and 10 when open space is
\* declared, with a warning instead when it is absent.
C21_RechargeScoreAsWorded ==
    \A i \in DOMAIN pc :
        ReturnedAs(i, "recharge") =>
            LET input == userInput[i]
                score == RechargeScoreAsWorded(input, locals[i].cityData.annualRainfall)
                warnings == Listed(outcome[i].warnings)
            IN  /\ outcome[i].feasibilityScore = IF score < 100 THEN score ELSE 100
                /\ "Shallow groundwater - monitor for waterlogging" \in warnings
                        <=> input.groundwaterDepth <= 3
                /\ "Deep groundwater - recharge benefits may take time" \in warnings
                        <=> input.groundwaterDepth > 30
                /\ "Limited open space - recharge options restricted to pits only" \in warnings
                        <=> ~OpenSpaceDeclared(input)

\* the strings calculateRainwaterFeasibility appends whatever the tiers are:
\* the first-flush recommendation, and the purification one for Domestic use
HarvestingBoilerplate(input) == IF input.purpose = "Domestic" THEN 2 ELSE 1

\* C22: in the harvesting scorer every selected tier appends a string: each
\* of the rainfall, roof-material and coverage factors adds at least one
\* recommendation or warning, so a harvesting result lists at least three
\* strings besides the ones appended unconditionally.
C22_EveryTierEmitsAString ==
    \A i \in DOMAIN pc :
        ReturnedAs(i, "rainwater") =>
            Len(outcome[i].recommendations) + Len(outcome[i].warnings)
                >= 3 + HarvestingBoilerplate(userInput[i])

\* C23: every harvesting result lists the first-flush-diverter recommendation
\* and the purification recommendation, whatever the score and the input,
\* and a result for an Industrial environment carries an
\* industrial-environment warning, one the same input in a Residential
\* environment does not get.
C23_BoilerplateAlwaysListed ==
    \A i \in DOMAIN pc :
        ReturnedAs(i, "rainwater") =>
            LET residential == [userInput[i] EXCEPT !.environment = "Residential"]
                cityData == locals[i].cityData
                warningsResidential ==
                    calculateRainwaterFeasibility(
                        residential, cityData,
                        calculateRainwaterPotential(residential, cityData).annual,
                        calculateHouseholdDemand(residential)).warnings
            IN  /\ "Install first flush diverter for water quality"
                        \in Listed(outcome[i].recommendations)
                /\ "Consider UV/RO purification for drinking water"
                        \in Listed(outcome[i].recommendations)
                /\ userInput[i].environment = "Industrial" =>
                        Listed(outcome[i].warnings) \ Listed(warningsResidential) # {}

\* C24: the tank capacity of a harvesting result never exceeds 20,000 L, so
\* the tank volume never exceeds 20 m3 and the reported height is 2.0 m (up
\* to 8,000 L) or 2.5 m, never 3.0 m; and the capacity the system efficiency
\* is computed from is never below 3,000 L, so its small-tank penalty of 0.9
\* is never applied: the efficiency is min(0.95, 0.85 * (1.05 above
\* 10,000 L) * roof efficiency * 0.92 if Industrial * 0.95 if bird nesting).
C24_TankWithin20000 ==
    \A i \in DOMAIN pc :
        ReturnedAs(i, "rainwater") =>
            LET capacity == outcome[i].tankCapacity
                height == outcome[i].tankDimensions.height
                input == userInput[i]
                unpenalised ==
                    RMul(RMul(RMul(RMul(Rat(17, 20),
                                        IF capacity > 10000 THEN Rat(21, 20) ELSE Num(1)),
                                   roofEfficiency[input.roofType]),
                              IF input.environment = "Industrial" THEN Rat(23, 25) ELSE Num(1)),
                         IF input.birdNesting THEN Rat(19, 20) ELSE Num(1))
            IN  /\ capacity <= 20000
                /\ height \in {Num(2), Rat(5, 2)}
                /\ height = Num(2) <=> capacity <= 8000
                /\ capacity >= 3000
                /\ calculateSystemEfficiency(input, capacity) = RMin(unpenalised, Rat(19, 20))

\* the cap has acted: the monsoon surplus of the result is above 20,000 L and
\* the tank is 20,000 L, 2.5 m high
C24_Witness ==
    /\ ReturnedAs(1, "rainwater")
    /\ calculateMonsoonSurplus(outcome[1].monthlyPotential, outcome[1].householdDemand) > 20000
    /\ outcome[1].tankCapacity = 20000
    /\ outcome[1].tankDimensions.height = Rat(5, 2)

\* C25: for every validated input and every city record the feasibility
\* score is at least 68 in harvesting mode and at least 70 in recharge mode,
\* so the feasibilityLevel is never Low in either mode.
C25_NeverLow ==
    \A i \in DOMAIN pc :
        /\ ReturnedAs(i, "rainwater") => outcome[i].feasibilityScore >= 68
        /\ ReturnedAs(i, "recharge") => outcome[i].feasibilityScore >= 70
        /\ Returned(i) => outcome[i].feasibilityLevel # "Low"

\* the least favourable harvesting site: no rain, a roof that is neither RCC
\* nor GI, nothing covered; the score is 68 and the level Medium
C25_Witness ==
    /\ ReturnedAs(1, "rainwater")
    /\ locals[1].cityData.annualRainfall <= 600
    /\ userInput[1].roofType \in {"Asbestos", "Tiles"}
    /\ outcome[1].coveragePercentage <= 50
    /\ outcome[1].feasibilityScore = 68
    /\ outcome[1].feasibilityLevel = "Medium"

\* the fields of an input calculate never reads
Unread == {"budget", "name", "borewellCount", "aquiferType"}

\* two invocations hold results for inputs of the same mode that agree in
\* every field but, at most, the unread ones
SameButUnread(i, j) ==
    /\ Returned(i) /\ Returned(j)
    /\ calculationType[i] = calculationType[j]
    /\ DOMAIN userInput[i] = DOMAIN userInput[j]
    /\ \A f \in DOMAIN userInput[i] \ Unread : userInput[i][f] = userInput[j][f]

\* C26: the result of calculate does not depend on the requested budget
\* tier, nor on name, borewellCount or aquiferType: two inputs of the same
\* mode that differ only in those fields get identical results, all three
\* cost tiers, the payback and the feasibility included.
C26_ResultIgnoresBudget ==
    \A i, j \in DOMAIN pc : SameButUnread(i, j) => outcome[i] = outcome[j]

\* two harvesting results side by side, one asked for on a Medium and one on
\* a High budget, with the same three cost tiers
C26_Witness ==
    /\ SameButUnread(1, 2)
    /\ calculationType[1] = "rainwater"
    /\ userInput[1].budget = "Medium" /\ userInput[2].budget = "High"
    /\ outcome[1].systemCost = outcome[2].systemCost
    /\ outcome[1].systemCost.low < outcome[1].systemCost.high

\* C27: for every validated recharge input pitDimensions is present;
\* borewellRechargeCapacity and borewellRejuvenation are both present exactly
\* when hasBorewell is true; trenchDimensions is present exactly when
\* hasOpenSpace is true; and the trench cost (150 per m2 of open space) and
\* the borewell cost (35,000) are in the base cost behind systemCost exactly
\* when the corresponding output is present.
C27_OutputsMatchFlags ==
    \A i \in DOMAIN pc :
        (ReturnedAs(i, "recharge") /\ rechargeInputSchema(userInput[i]).success) =>
            LET input == userInput[i]
                result == outcome[i]
                trench == result.trenchDimensions # undefined
                borewell == result.borewellRechargeCapacity # undefined
                charged ==
                    input.catchmentArea * 250 + 45000
                    + (IF trench THEN input.openSpaceArea[1] * 150 ELSE 0)
                    + (IF borewell THEN 35000 ELSE 0)
            IN  /\ result.pitDimensions # undefined
                /\ borewell <=> input.hasBorewell
                /\ result.borewellRejuvenation # undefined <=> input.hasBorewell
                /\ trench <=> input.hasOpenSpace
                /\ trench => input.openSpaceArea[1] * 150 > 0
                /\ result.systemCost = SystemCost(Num(charged))

\* a site with a borewell and an open space: the four outputs are present
\* and both components are charged
C27_Witness ==
    /\ ReturnedAs(1, "recharge")
    /\ userInput[1].hasBorewell /\ userInput[1].hasOpenSpace
    /\ outcome[1].trenchDimensions # undefined
    /\ outcome[1].borewellRechargeCapacity # undefined
    /\ outcome[1].borewellRejuvenation # undefined
    /\ outcome[1].systemCost.medium
           = userInput[1].catchmentArea * 250 + 45000
             + userInput[1].openSpaceArea[1] * 150 + 35000

\* C28: on the App page currentState = 'results' implies that
\* calculationType, calculationResults and formData are all non-null, so
\* that the results view renders, and currentState = 'form' implies that
\* calculationType is non-null, whatever the user does while a request to
\* /api/calculate is in flight.
C28_ViewAlwaysRenders ==
    /\ app.currentState = "results" =>
            /\ app.calculationType # null
            /\ app.calculationResults # NULL
            /\ app.formData # NULL
    /\ app.currentState = "form" => app.calculationType # null

\* C29: whenever the App page displays results, submissionId is null or the
\* id of the saved submission that produced exactly the results on display,
\* so Download PDF never asks the server for the report of another
\* submission than the one on display.
C29_SubmissionIdMatchesResults ==
    /\ (ResultsRendered /\ app.submissionId # NULL) =>
            \E k \in DOMAIN submissions :
                /\ submissions[k].id = app.submissionId[1]
                /\ submissions[k].results = app.calculationResults
    /\ (download # NULL /\ download.from = "server") =>
            \E k \in DOMAIN submissions :
                /\ submissions[k].id = download.submissionId
                /\ submissions[k].results = download.showing

\* C30: in every harvesting result the coverage tier of the feasibility
\* score agrees with the reported coveragePercentage: the tier of 10, the
\* one that recommends 'Excellent coverage', is awarded only if the reported
\* coveragePercentage is above 80; the tier of 3, the one that recommends
\* 'Partial coverage', only if it is at most 50; and the tier of 7, which
\* recommends neither, only if it is above 50 and at most 80.
C30_CoverageTierMatchesReport ==
    \A i \in DOMAIN pc :
        ReturnedAs(i, "rainwater") =>
            LET reported == outcome[i].coveragePercentage
                recommended == Listed(outcome[i].recommendations)
                excellent ==
                    "Excellent coverage - system will meet most water needs" \in recommended
                partial ==
                    "Partial coverage - combine with water conservation" \in recommended
            IN  /\ excellent => reported > 80
                /\ partial => reported <= 50
                /\ (~excellent /\ ~partial) => (reported > 50 /\ reported <= 80)

====
